---------------------------- MODULE Spec2Model ----------------------------
(***************************************************************************)
(* Bank-review analysis (Tiegist/week2-bank-reviews).                      *)
(*                                                                         *)
(* Five parts of the repository are modelled:                              *)
(*   - src/analysis/thematic_analysis.py: preprocess_text,                 *)
(*     extract_keywords_tfidf and identify_themes_manual (specifications   *)
(*     Spec and SpecRich, and SpecTwice for two runs on one corpus);       *)
(*   - src/analysis/generate_insights.py: identify_drivers_and_pain_points *)
(*     and generate_recommendations (specifications SpecInsights and       *)
(*     SpecRecommend);                                                     *)
(*   - src/preprocessing/preprocess_reviews.py: remove_duplicates          *)
(*     (specification SpecPreprocess), handle_missing_data,                *)
(*     normalize_dates, clean_review_text and preprocess_reviews           *)
(*     (specification SpecClean);                                          *)
(*   - src/scraping/scrape_reviews.py: scrape_reviews (specification       *)
(*     SpecScraper) and main;                                              *)
(*   - src/main.py: main (specification SpecMain).                         *)
(* SpecText applies preprocess_text to a review column and SpecTriggers    *)
(* identify_themes_manual to the triggers of the taxonomy.                 *)
(* SpecPipeline runs main() of thematic_analysis.py, identify_themes_by_   *)
(* bank included, and then generate_recommendations on the file it saves.  *)
(*                                                                         *)
(* A Python str whose characters are inspected (a review text, a keyword   *)
(* string, a trigger) is a sequence of one-character strings.  A str that  *)
(* is only compared for equality (a theme label, a bank, a sentiment       *)
(* label) is a TLA+ string; Chars gives the characters of a theme label    *)
(* where the code scans it.                                                *)
(***************************************************************************)
EXTENDS Integers, Sequences, FiniteSets, TLC

VARIABLES
    pc,                  \* the step the run is at
    reviews,             \* thematic: df['review'], one raw value per row
    max_features,        \* thematic: the argument of extract_keywords_tfidf
    feature_names,       \* thematic: the vocabulary extract_keywords_tfidf returns
    keywords_list,       \* thematic: one keyword string per row
    review_themes,       \* thematic: one theme label per row
    bank_themes,         \* thematic: what identify_themes_by_bank returns
    keywords_again,      \* thematic: the keyword strings of a second run
    themes_again,        \* thematic: the theme labels of a second run
    df,                  \* insights: the table, one record per review
    columns,             \* insights: the columns the table has, besides bank
    bank_name,           \* insights: the bank filter (NoBank: none given)
    top_positive_themes, \* insights: value_counts().head(3) of the POSITIVE rows
    top_negative_themes, \* insights: value_counts().head(3) of the NEGATIVE rows
    low_rating_themes,   \* insights: value_counts().head(2) of the rating <= 2 rows
    high_rating_themes,  \* insights: value_counts().head(2) of the rating >= 4 rows
    insights,            \* insights: [drivers |-> <<..>>, pain_points |-> <<..>>]
    recommendations,     \* insights: the list generate_recommendations returns
    raw_df,              \* preprocessing: the table a step is given
    processed_df,        \* preprocessing: the table the step returns
    processed_texts,     \* thematic: texts of extract_keywords_tfidf, one per row
    started,             \* main: the stages started so far, in order
    outcome,             \* main: how each finished stage ended, in order
    complete,            \* main: 'Pipeline Complete!' has been printed
    bank_index,          \* scraper: the place in BANK_APPS of the bank scraped (0: none)
    count_arg,           \* scraper: the argument count of scrape_reviews
    collected,           \* scraper: len(all_reviews)
    continuation_token,  \* scraper: the token of the last response (None: none)
    current_batch,       \* scraper: the count of the last request
    returned             \* scraper: <<n>> once a list of n reviews is returned

thematic_vars == <<reviews, max_features, keywords_list, feature_names, review_themes,
                   bank_themes, keywords_again, themes_again>>
insights_vars == <<df, columns, bank_name, top_positive_themes, top_negative_themes,
                   low_rating_themes, high_rating_themes, insights, recommendations>>
preprocess_vars == <<raw_df, processed_df>>
scraper_vars == <<count_arg, collected, continuation_token, current_batch, returned>>
main_vars == <<started, outcome, complete, bank_index>>
run_vars == <<processed_texts, main_vars, scraper_vars>>
vars == <<pc, thematic_vars, insights_vars, preprocess_vars, run_vars>>

\* continuation_token = None
None == "None"

-----------------------------------------------------------------------------
(* Strings *)

UpperCase == <<"A","B","C","D","E","F","G","H","I","J","K","L","M",
               "N","O","P","Q","R","S","T","U","V","W","X","Y","Z">>
LowerCase == <<"a","b","c","d","e","f","g","h","i","j","k","l","m",
               "n","o","p","q","r","s","t","u","v","w","x","y","z">>

IsUpper(c) == \E i \in DOMAIN UpperCase : UpperCase[i] = c
IsLower(c) == \E i \in DOMAIN LowerCase : LowerCase[i] = c

LowerChar(c) ==
    IF IsUpper(c)
    THEN LowerCase[CHOOSE i \in DOMAIN UpperCase : UpperCase[i] = c]
    ELSE c

\* str.lower()
Lower(s) == [i \in DOMAIN s |-> LowerChar(s[i])]

\* `p in s` for two str
IsSubstring(p, s) ==
    \E i \in 0..(Len(s) - Len(p)) : \A j \in 1..Len(p) : s[i + j] = p[j]

\* sep.join(parts)
RECURSIVE Join(_, _)
Join(parts, sep) ==
    IF parts = <<>> THEN <<>>
    ELSE IF Len(parts) = 1 THEN parts[1]
    ELSE parts[1] \o sep \o Join(Tail(parts), sep)

CommaSpace == <<",", " ">>

-----------------------------------------------------------------------------
(* thematic_analysis.py: the taxonomy and identify_themes_manual *)

theme_patterns ==
  << [theme |-> "Account Access Issues", patterns |-> <<
        <<"l","o","g","i","n">>,  \* login
        <<"p","a","s","s","w","o","r","d">>,  \* password
        <<"a","c","c","e","s","s">>,  \* access
        <<"a","c","c","o","u","n","t">>,  \* account
        <<"s","i","g","n">>,  \* sign
        <<"a","u","t","h","e","n","t","i","c","a","t","i","o","n">>,  \* authentication
        <<"v","e","r","i","f","y">>,  \* verify
        <<"s","e","c","u","r","i","t","y">>,  \* security
        <<"l","o","c","k","e","d">>,  \* locked
        <<"b","l","o","c","k","e","d">>   \* blocked
     >>],
     [theme |-> "Transaction Performance", patterns |-> <<
        <<"t","r","a","n","s","f","e","r">>,  \* transfer
        <<"t","r","a","n","s","a","c","t","i","o","n">>,  \* transaction
        <<"p","a","y","m","e","n","t">>,  \* payment
        <<"s","l","o","w">>,  \* slow
        <<"f","a","s","t">>,  \* fast
        <<"s","p","e","e","d">>,  \* speed
        <<"t","i","m","e","o","u","t">>,  \* timeout
        <<"d","e","l","a","y">>,  \* delay
        <<"p","r","o","c","e","s","s","i","n","g">>,  \* processing
        <<"c","o","m","p","l","e","t","e">>,  \* complete
        <<"f","a","i","l","e","d">>   \* failed
     >>],
     [theme |-> "User Interface & Experience", patterns |-> <<
        <<"u","i">>,  \* ui
        <<"i","n","t","e","r","f","a","c","e">>,  \* interface
        <<"d","e","s","i","g","n">>,  \* design
        <<"l","a","y","o","u","t">>,  \* layout
        <<"n","a","v","i","g","a","t","i","o","n">>,  \* navigation
        <<"b","u","t","t","o","n">>,  \* button
        <<"s","c","r","e","e","n">>,  \* screen
        <<"d","i","s","p","l","a","y">>,  \* display
        <<"u","s","e","r">>,  \* user
        <<"e","x","p","e","r","i","e","n","c","e">>,  \* experience
        <<"u","x">>,  \* ux
        <<"e","a","s","y">>,  \* easy
        <<"s","i","m","p","l","e">>   \* simple
     >>],
     [theme |-> "Customer Support", patterns |-> <<
        <<"s","u","p","p","o","r","t">>,  \* support
        <<"h","e","l","p">>,  \* help
        <<"s","e","r","v","i","c","e">>,  \* service
        <<"c","u","s","t","o","m","e","r">>,  \* customer
        <<"c","o","n","t","a","c","t">>,  \* contact
        <<"r","e","s","p","o","n","s","e">>,  \* response
        <<"a","s","s","i","s","t","a","n","c","e">>,  \* assistance
        <<"i","s","s","u","e">>,  \* issue
        <<"p","r","o","b","l","e","m">>,  \* problem
        <<"c","o","m","p","l","a","i","n","t">>,  \* complaint
        <<"r","e","s","o","l","v","e">>   \* resolve
     >>],
     [theme |-> "App Reliability", patterns |-> <<
        <<"c","r","a","s","h">>,  \* crash
        <<"e","r","r","o","r">>,  \* error
        <<"b","u","g">>,  \* bug
        <<"g","l","i","t","c","h">>,  \* glitch
        <<"f","r","e","e","z","e">>,  \* freeze
        <<"h","a","n","g">>,  \* hang
        <<"c","l","o","s","e">>,  \* close
        <<"r","e","s","t","a","r","t">>,  \* restart
        <<"u","n","s","t","a","b","l","e">>,  \* unstable
        <<"r","e","l","i","a","b","l","e">>,  \* reliable
        <<"s","t","a","b","l","e">>,  \* stable
        <<"w","o","r","k","i","n","g">>   \* working
     >>],
     [theme |-> "Feature Requests", patterns |-> <<
        <<"f","e","a","t","u","r","e">>,  \* feature
        <<"a","d","d">>,  \* add
        <<"w","a","n","t">>,  \* want
        <<"n","e","e","d">>,  \* need
        <<"m","i","s","s","i","n","g">>,  \* missing
        <<"r","e","q","u","e","s","t">>,  \* request
        <<"s","u","g","g","e","s","t">>,  \* suggest
        <<"i","m","p","r","o","v","e">>,  \* improve
        <<"e","n","h","a","n","c","e">>,  \* enhance
        <<"o","p","t","i","o","n">>,  \* option
        <<"f","u","n","c","t","i","o","n","a","l","i","t","y">>   \* functionality
     >>],
     [theme |-> "Security & Privacy", patterns |-> <<
        <<"s","e","c","u","r","i","t","y">>,  \* security
        <<"p","r","i","v","a","c","y">>,  \* privacy
        <<"s","a","f","e">>,  \* safe
        <<"s","e","c","u","r","e">>,  \* secure
        <<"p","r","o","t","e","c","t","i","o","n">>,  \* protection
        <<"d","a","t","a">>,  \* data
        <<"p","e","r","s","o","n","a","l">>,  \* personal
        <<"i","n","f","o","r","m","a","t","i","o","n">>,  \* information
        <<"t","r","u","s","t">>,  \* trust
        <<"f","r","a","u","d">>   \* fraud
     >>] >>

ThemeNames == {theme_patterns[t].theme : t \in DOMAIN theme_patterns}

\* the inner loop (lines 168-171): some pattern of the theme is in keyword_lower
ThemeMatches(patterns, keyword_lower) ==
    \E k \in DOMAIN patterns : IsSubstring(patterns[k], keyword_lower)

\* the outer loop (lines 164-171): matched_themes, in the order of theme_patterns
MatchedThemes(keywords) ==
    LET keyword_lower == Lower(keywords)
        hits == SelectSeq(theme_patterns,
                          LAMBDA e : ThemeMatches(e.patterns, keyword_lower))
    IN  [i \in DOMAIN hits |-> hits[i].theme]

\* the last of the matched themes
PrimaryThemeLast(matched_themes) == matched_themes[Len(matched_themes)]

\* matched_themes[0] (line 175)
PrimaryTheme(matched_themes) == matched_themes[1]

\* an assignment that leaves a review without a matched theme unlabelled
NoOtherLabel(matched_themes) ==
    IF matched_themes # <<>> THEN PrimaryTheme(matched_themes) ELSE ""

\* lines 174-177
AssignTheme(matched_themes) ==
    IF matched_themes # <<>> THEN PrimaryTheme(matched_themes) ELSE "Other"

\* a loop body without the test of line 159
EmptyKeywordsAsOther(keywords) ==
    AssignTheme(MatchedThemes(keywords))

\* the body of the loop over keywords_list (lines 158-177)
ThemeOfKeywords(keywords) ==
    IF keywords = <<>> THEN "" ELSE AssignTheme(MatchedThemes(keywords))

\* identify_themes_manual(keywords_list, df): df is not read
identify_themes_manual(kws) ==
    [idx \in DOMAIN kws |-> ThemeOfKeywords(kws[idx])]

-----------------------------------------------------------------------------
(* thematic_analysis.py: preprocess_text *)

\* a missing value of the review column (NaN / None): no character sequence
NaN == <<"NaN">>

\* the characters \s matches, among those of the modelled texts
WhiteSpace == {" ", "\t", "\n"}

IsAlpha(c) == IsUpper(c) \/ IsLower(c)

\* a substitution that puts a space where a character is removed
ReplaceSpecial(s) ==
    [i \in DOMAIN s |-> IF IsAlpha(s[i]) \/ s[i] \in WhiteSpace THEN s[i] ELSE " "]

\* re.sub(r'[^a-zA-Z\s]', '', text)
RemoveSpecial(s) == SelectSeq(s, LAMBDA c : IsAlpha(c) \/ c \in WhiteSpace)

\* re.sub(r'\s+', ' ', text)
RECURSIVE CollapseWhitespace(_)
CollapseWhitespace(s) ==
    IF s = <<>> THEN <<>>
    ELSE IF Head(s) \in WhiteSpace
         THEN IF Len(s) > 1 /\ s[2] \in WhiteSpace
              THEN CollapseWhitespace(Tail(s))
              ELSE <<" ">> \o CollapseWhitespace(Tail(s))
         ELSE <<Head(s)>> \o CollapseWhitespace(Tail(s))

\* str.strip()
RECURSIVE LStrip(_)
LStrip(s) ==
    IF s # <<>> /\ Head(s) \in WhiteSpace THEN LStrip(Tail(s)) ELSE s

RECURSIVE RStrip(_)
RStrip(s) ==
    IF s # <<>> /\ s[Len(s)] \in WhiteSpace
    THEN RStrip(SubSeq(s, 1, Len(s) - 1))
    ELSE s

Strip(s) == RStrip(LStrip(s))

preprocess_text(text) ==
    IF text = NaN THEN <<>>
    ELSE Strip(CollapseWhitespace(RemoveSpecial(Lower(text))))

-----------------------------------------------------------------------------
(* thematic_analysis.py: extract_keywords_tfidf.  The vectorizer is         *)
(* scikit-learn's TfidfVectorizer with the arguments of lines 55-60:        *)
(* tokens are runs of two or more word characters, English stop words are   *)
(* dropped, the terms are the unigrams and bigrams of what remains, a term  *)
(* is kept when at least min_df documents hold it, at most max_features     *)
(* terms are kept (the most frequent over the corpus), the vocabulary is    *)
(* in alphabetical order and the weight of a term in a document is          *)
(* tf * (ln((1 + n) / (1 + df)) + 1), scaled to unit length per document.   *)

min_df == 2
TopN == 10
KeepN == 5

\* the members of the stop-word list that occur in the modelled texts
ENGLISH_STOP_WORDS ==
    { <<"t","h","e">>,
      <<"i","s">>,
      <<"a","n","d">>,
      <<"t","o">>,
      <<"i","t">>,
      <<"n","o","t">>,
      <<"v","e","r","y">>,
      <<"t","h","i","s">>,
      <<"w","a","s">>,
      <<"f","o","r">> }
\* token_pattern (?u)\b\w\w+\b on a normalized text: the words of two or
\* more letters, in order
RECURSIVE Words(_, _)
Words(s, cur) ==
    IF s = <<>> THEN (IF cur = <<>> THEN <<>> ELSE <<cur>>)
    ELSE IF IsAlpha(Head(s)) THEN Words(Tail(s), Append(cur, Head(s)))
    ELSE (IF cur = <<>> THEN <<>> ELSE <<cur>>) \o Words(Tail(s), <<>>)

Tokens(text) ==
    SelectSeq(Words(Lower(text), <<>>),
              LAMBDA w : Len(w) >= 2 /\ w \notin ENGLISH_STOP_WORDS)

\* ngram_range=(1, 2): the unigrams, then the bigrams joined by a space
Ngrams(text) ==
    LET tokens == Tokens(text)
    IN  tokens \o [i \in 1..(Len(tokens) - 1) |->
                      tokens[i] \o <<" ">> \o tokens[i + 1]]

SeqToSet(s) == {s[i] : i \in DOMAIN s}

\* what the analyzer makes of each document of the corpus
Analyze(texts) == [i \in DOMAIN texts |-> Ngrams(texts[i])]

\* term frequency: the occurrences of term among the n-grams of a document
TermCount(term, doc) ==
    Cardinality({k \in DOMAIN doc : doc[k] = term})

\* document frequency: the documents that hold term
DocFreq(term, grams) ==
    Cardinality({i \in DOMAIN grams : term \in SeqToSet(grams[i])})

RECURSIVE SumOver(_, _)
SumOver(f, S) ==
    IF S = {} THEN 0
    ELSE LET x == CHOOSE y \in S : TRUE IN f[x] + SumOver(f, S \ {x})

\* the occurrences of term over the whole corpus
CorpusCount(term, grams) ==
    SumOver([i \in DOMAIN grams |-> TermCount(term, grams[i])], DOMAIN grams)

AllTerms(grams) == UNION {SeqToSet(grams[i]) : i \in DOMAIN grams}

\* a vocabulary without a document-frequency floor
EveryTerm(grams) == AllTerms(grams)

\* the terms that reach the document-frequency floor
FrequentTerms(grams) == {t \in AllTerms(grams) : DocFreq(t, grams) >= min_df}

\* max_features: the vocabularies the cut can leave.  Terms that occur
\* equally often over the corpus are cut in an order the sort does not fix.
Vocabularies(grams, limit) ==
    LET kept == FrequentTerms(grams)
        total == [t \in kept |-> CorpusCount(t, grams)]
    IN  IF Cardinality(kept) <= limit THEN {kept}
        ELSE {V \in SUBSET kept :
                 /\ Cardinality(V) = limit
                 /\ \A t \in V : \A u \in kept \ V : total[t] >= total[u]}

\* fit_transform raises ValueError when no term is left
VectorizerFails(grams) == FrequentTerms(grams) = {}

\* the order of two strings by code point (space before the letters)
CharRank(c) ==
    IF IsLower(c) THEN CHOOSE i \in DOMAIN LowerCase : LowerCase[i] = c ELSE 0

RECURSIVE StrLess(_, _)
StrLess(a, b) ==
    IF b = <<>> THEN FALSE
    ELSE IF a = <<>> THEN TRUE
    ELSE IF Head(a) = Head(b) THEN StrLess(Tail(a), Tail(b))
    ELSE CharRank(Head(a)) < CharRank(Head(b))

\* get_feature_names_out(): the vocabulary in alphabetical order
RECURSIVE SortedTerms(_)
SortedTerms(V) ==
    IF V = {} THEN <<>>
    ELSE LET least == CHOOSE t \in V : \A u \in V \ {t} : StrLess(t, u)
         IN  <<least>> \o SortedTerms(V \ {least})

\* 10^6 * (ln((1 + n) / (1 + df)) + 1), rounded: IdfMicro[n][df]
IdfMicro ==
  <<
     <<1000000>>,
     <<1405465, 1000000>>,
     <<1693147, 1287682, 1000000>>,
     <<1916291, 1510826, 1223144, 1000000>>,
     <<2098612, 1693147, 1405465, 1182322, 1000000>>,
     <<2252763, 1847298, 1559616, 1336472, 1154151, 1000000>>,
     <<2386294, 1980829, 1693147, 1470004, 1287682, 1133531, 1000000>>,
     <<2504077, 2098612, 1810930, 1587787, 1405465, 1251314, 1117783, 1000000>>
  >>
\* the weight of each term of V in document i, up to the positive
\* unit-length factor of the document
Scores(i, grams, V) ==
    [t \in V |-> TermCount(t, grams[i]) * IdfMicro[Len(grams)][DocFreq(t, grams)]]

\* scores.argsort()[...][::-1] on the terms with a positive score: the
\* orders by non-increasing score.  argsort's default sort is not stable, so
\* terms of equal score come in any order.
RECURSIVE DescendingOrders(_, _)
DescendingOrders(T, scores) ==
    IF T = {} THEN {<<>>}
    ELSE UNION { {<<t>> \o o : o \in DescendingOrders(T \ {t}, scores)} :
                 t \in {x \in T : \A u \in T : scores[x] >= scores[u]} }

\* a slice that keeps everything
WholeSequence(s, n) == s

\* s[:n]
FirstN(s, n) == SubSeq(s, 1, IF Len(s) < n THEN Len(s) ELSE n)

\* the keyword strings of row i without the cut of line 74
KeywordsOfRowUncut(i, texts, grams, V) ==
    IF Strip(texts[i]) # <<>>
    THEN LET scores == Scores(i, grams, V)
             positive == {t \in V : scores[t] > 0}
         IN  {Join(FirstN(o, TopN), CommaSpace) :
                 o \in DescendingOrders(positive, scores)}
    ELSE {<<>>}

\* lines 69-76 for row i: the keyword strings the row can get
KeywordsOfRow(i, texts, grams, V) ==
    IF Strip(texts[i]) # <<>>
    THEN LET scores == Scores(i, grams, V)
             positive == {t \in V : scores[t] > 0}
         IN  {Join(FirstN(FirstN(o, TopN), KeepN), CommaSpace) :
                 o \in DescendingOrders(positive, scores)}
    ELSE {<<>>}

\* the lists of one keyword string per row, rows 1..n
RECURSIVE KeywordLists(_, _, _, _)
KeywordLists(n, texts, grams, V) ==
    IF n = 0 THEN {<<>>}
    ELSE {Append(kl, k) : kl \in KeywordLists(n - 1, texts, grams, V),
                          k \in KeywordsOfRow(n, texts, grams, V)}

\* an extraction that returns no keyword string at all when the vectorizer
\* fails
ExtractNothingOnFailure(review_column, limit) ==
    LET texts == [i \in DOMAIN review_column |-> preprocess_text(review_column[i])]
        grams == Analyze(texts)
    IN  IF VectorizerFails(grams)
        THEN {[keywords_list |-> <<>>, feature_names |-> <<>>]}
        ELSE UNION { {[keywords_list |-> kl, feature_names |-> SortedTerms(V)] :
                         kl \in KeywordLists(Len(texts), texts, grams, V)} :
                     V \in Vocabularies(grams, limit) }

\* extract_keywords_tfidf(df, max_features): the results [keywords_list,
\* feature_names] it can return
extract_keywords_tfidf(review_column, limit) ==
    LET texts == [i \in DOMAIN review_column |-> preprocess_text(review_column[i])]
        grams == Analyze(texts)
    IN  IF VectorizerFails(grams)
        THEN {[keywords_list |-> [i \in DOMAIN texts |-> <<>>],
               feature_names |-> <<>>]}
        ELSE UNION { {[keywords_list |-> kl, feature_names |-> SortedTerms(V)] :
                         kl \in KeywordLists(Len(texts), texts, grams, V)} :
                     V \in Vocabularies(grams, limit) }

-----------------------------------------------------------------------------
(* generate_insights.py: identify_drivers_and_pain_points *)

\* value_counts().head(n) of the sentiment segments and of the rating segments
SentimentHead == 3
RatingHead == 2
LowRating == 2
HighRating == 4

\* no bank_name given (None)
NoBank == "(none)"

\* a column the table does not have
Absent == "(absent)"

\* a missing value (NaN) in the theme column, as read_csv gives for an
\* empty field
NaNTheme == "(NaN)"

RECURSIVE Gcd(_, _)
Gcd(a, b) == IF b = 0 THEN a ELSE Gcd(b, a % b)

\* (count / n) * 100 as an exact fraction in lowest terms
\* the share of count in n as a per-mille value
PerMille(count, n) ==
    LET g == Gcd(1000 * count, n)
    IN  [num |-> (1000 * count) \div g, den |-> n \div g]

Percentage(count, n) ==
    LET g == Gcd(100 * count, n)
    IN  [num |-> (100 * count) \div g, den |-> n \div g]

\* a tally that counts each theme once
CountedOnce(segment, theme) == 1

\* the rows of the segment that carry the theme
ThemeCount(segment, theme) ==
    Cardinality({i \in DOMAIN segment : segment[i].theme = theme})

\* a tally that lists the themes in any order
UnsortedCounts(segment) ==
    LET themes == {segment[i].theme : i \in DOMAIN segment} \ {NaNTheme}
        counts == [t \in themes |-> ThemeCount(segment, t)]
        all == [t \in themes |-> 0]
    IN  {[i \in DOMAIN o |-> [theme |-> o[i], count |-> counts[o[i]]]] :
            o \in DescendingOrders(themes, all)}

\* segment['theme'].value_counts(): the distinct themes (a missing theme is
\* not counted) by non-increasing count.  The order of themes of equal count
\* is not fixed by the sort.
ValueCounts(segment) ==
    LET themes == {segment[i].theme : i \in DOMAIN segment} \ {NaNTheme}
        counts == [t \in themes |-> ThemeCount(segment, t)]
    IN  {[i \in DOMAIN o |-> [theme |-> o[i], count |-> counts[o[i]]]] :
            o \in DescendingOrders(themes, counts)}

\* segment['theme'].value_counts().head(n): what it can be
HeadOfValueCounts(segment, n) ==
    {FirstN(ranking, n) : ranking \in ValueCounts(segment)}

\* a filter that lets every theme through
KeepEveryTheme(theme) == TRUE

\* `if theme and theme != 'Other'`
IsInsightTheme(theme) == theme # "" /\ theme # "Other"

\* lines 49-56 and 62-69: one Insight for each entry of the ranking that
\* passes the filter, in the order of the ranking
SentimentPass(ranking, n) ==
    LET kept == SelectSeq(ranking, LAMBDA e : IsInsightTheme(e.theme))
    IN  [i \in DOMAIN kept |->
            [theme |-> kept[i].theme, count |-> kept[i].count,
             percentage |-> Percentage(kept[i].count, n)]]

\* a membership test that finds nothing
NeverListed(list, theme) == FALSE

\* `any(p['theme'] == theme for p in insights[...])`
AlreadyListed(list, theme) == \E i \in DOMAIN list : list[i].theme = theme

\* a rating pass that replaces the entry of a theme already listed
RECURSIVE RatingPassOverwrites(_, _, _)
RatingPassOverwrites(list, ranking, n) ==
    IF ranking = <<>> THEN list
    ELSE LET e == Head(ranking)
             entry == [theme |-> e.theme, count |-> e.count,
                       percentage |-> Percentage(e.count, n)]
         IN  IF ~IsInsightTheme(e.theme)
             THEN RatingPassOverwrites(list, Tail(ranking), n)
             ELSE IF \E i \in DOMAIN list : list[i].theme = e.theme
             THEN RatingPassOverwrites(
                      [i \in DOMAIN list |->
                          IF list[i].theme = e.theme THEN entry ELSE list[i]],
                      Tail(ranking), n)
             ELSE RatingPassOverwrites(Append(list, entry), Tail(ranking), n)

\* lines 77-85 and 91-99: the entries of the ranking that pass the filter
\* and are not yet in the list are appended to it
RECURSIVE RatingPass(_, _, _)
RatingPass(list, ranking, n) ==
    IF ranking = <<>> THEN list
    ELSE LET e == Head(ranking)
         IN  IF IsInsightTheme(e.theme) /\ ~AlreadyListed(list, e.theme)
             THEN RatingPass(Append(list,
                                    [theme |-> e.theme, count |-> e.count,
                                     percentage |-> Percentage(e.count, n)]),
                             Tail(ranking), n)
             ELSE RatingPass(list, Tail(ranking), n)

\* lines 31-36
BankRows(table, bank) ==
    IF bank # NoBank THEN SelectSeq(table, LAMBDA r : r.bank = bank) ELSE table

\* the four segments; a segment whose column is missing is not computed
PositiveReviews(bank_df, cols) ==
    IF "sentiment_label" \in cols
    THEN SelectSeq(bank_df, LAMBDA r : r.sentiment_label = "POSITIVE") ELSE <<>>
NegativeReviews(bank_df, cols) ==
    IF "sentiment_label" \in cols
    THEN SelectSeq(bank_df, LAMBDA r : r.sentiment_label = "NEGATIVE") ELSE <<>>
LowRatings(bank_df, cols) ==
    IF "rating" \in cols
    THEN SelectSeq(bank_df, LAMBDA r : r.rating <= LowRating) ELSE <<>>
HighRatings(bank_df, cols) ==
    IF "rating" \in cols
    THEN SelectSeq(bank_df, LAMBDA r : r.rating >= HighRating) ELSE <<>>

\* the guards of lines 44, 47 and 60, and of lines 72, 75 and 89
SentimentBranch(cols, segment) ==
    "sentiment_label" \in cols /\ "theme" \in cols /\ Len(segment) > 0
RatingBranch(cols, segment) ==
    "rating" \in cols /\ Len(segment) > 0 /\ "theme" \in cols

\* what value_counts().head(n) is assigned in a branch; nothing when the
\* branch is not taken
HeadIfTaken(taken, segment, n) ==
    IF taken THEN HeadOfValueCounts(segment, n) ELSE {<<>>}

\* an InsightSet whose rating-derived entries are divided by the sizes of
\* the sentiment segments
SentimentDenominators(tp, tn, lr, hr, n_positive, n_negative, n_low, n_high) ==
    [drivers |-> RatingPass(SentimentPass(tp, n_positive), hr, n_positive),
     pain_points |-> RatingPass(SentimentPass(tn, n_negative), lr, n_negative)]

\* an InsightSet whose drivers leave out the themes of the pain points
WithoutSharedThemes(tp, tn, lr, hr, n_positive, n_negative, n_low, n_high) ==
    LET pain_points == RatingPass(SentimentPass(tn, n_negative), lr, n_low)
        drivers == RatingPass(SentimentPass(tp, n_positive), hr, n_high)
    IN  [drivers |-> SelectSeq(drivers,
                               LAMBDA d : ~AlreadyListed(pain_points, d.theme)),
         pain_points |-> pain_points]

\* the InsightSet built from the four rankings and the sizes of the four
\* segments
BuildInsights(tp, tn, lr, hr, n_positive, n_negative, n_low, n_high) ==
    [drivers |-> RatingPass(SentimentPass(tp, n_positive), hr, n_high),
     pain_points |-> RatingPass(SentimentPass(tn, n_negative), lr, n_low)]

-----------------------------------------------------------------------------
(* generate_insights.py: generate_recommendations *)

\* the characters of a theme label
Chars ==
       "Account Access Issues" :> <<"A","c","c","o","u","n","t"," ","A","c","c","e","s","s"," ","I","s","s","u","e","s">>
    @@ "Transaction Performance" :> <<"T","r","a","n","s","a","c","t","i","o","n"," ","P","e","r","f","o","r","m","a","n","c","e">>
    @@ "User Interface & Experience" :> <<"U","s","e","r"," ","I","n","t","e","r","f","a","c","e"," ","&"," ","E","x","p","e","r","i","e","n","c","e">>
    @@ "Customer Support" :> <<"C","u","s","t","o","m","e","r"," ","S","u","p","p","o","r","t">>
    @@ "App Reliability" :> <<"A","p","p"," ","R","e","l","i","a","b","i","l","i","t","y">>
    @@ "Feature Requests" :> <<"F","e","a","t","u","r","e"," ","R","e","q","u","e","s","t","s">>
    @@ "Security & Privacy" :> <<"S","e","c","u","r","i","t","y"," ","&"," ","P","r","i","v","a","c","y">>
    @@ "Other" :> <<"O","t","h","e","r">>
    @@ "" :> <<>>

\* the parts of a theme label generate_recommendations looks for
AccountAccess == <<"A","c","c","o","u","n","t"," ","A","c","c","e","s","s">>
TransactionPerformance == <<"T","r","a","n","s","a","c","t","i","o","n"," ","P","e","r","f","o","r","m","a","n","c","e">>
UserInterface == <<"U","s","e","r"," ","I","n","t","e","r","f","a","c","e">>
Experience == <<"E","x","p","e","r","i","e","n","c","e">>
CustomerSupport == <<"C","u","s","t","o","m","e","r"," ","S","u","p","p","o","r","t">>
Reliability == <<"R","e","l","i","a","b","i","l","i","t","y">>

\* `'...' in theme`
Contains(theme, part) == IsSubstring(part, Chars[theme])

\* lines 113-142: the recommendation of one pain point, if any
PainPointRecommendation(theme) ==
    IF Contains(theme, AccountAccess)
    THEN <<[category |-> "Account Access",
           recommendation |-> "Improve login process and authentication mechanisms. Consider implementing biometric authentication and password recovery options.",
           priority |-> "High"]>>
    ELSE IF Contains(theme, TransactionPerformance)
    THEN <<[category |-> "Performance",
           recommendation |-> "Optimize transaction processing speed. Investigate server response times and implement caching strategies.",
           priority |-> "High"]>>
    ELSE IF Contains(theme, UserInterface) \/ Contains(theme, Experience)
    THEN <<[category |-> "UX/UI",
           recommendation |-> "Redesign user interface for better usability. Conduct user testing and implement modern design patterns.",
           priority |-> "Medium"]>>
    ELSE IF Contains(theme, CustomerSupport)
    THEN <<[category |-> "Support",
           recommendation |-> "Enhance customer support channels. Consider implementing AI chatbot for faster response times.",
           priority |-> "High"]>>
    ELSE IF Contains(theme, Reliability)
    THEN <<[category |-> "Stability",
           recommendation |-> "Fix app crashes and stability issues. Implement comprehensive error handling and testing.",
           priority |-> "Critical"]>>
    ELSE <<>>

\* a mapping that recommends an enhancement for any driver
EveryDriverRecommended(theme) ==
    <<[category |-> "Enhancement",
       recommendation |-> "Leverage fast transaction processing as a competitive advantage. Market this feature prominently.",
       priority |-> "Low"]>>

\* lines 147-152: the recommendation of one driver, if any
DriverRecommendation(theme) ==
    IF Contains(theme, TransactionPerformance)
    THEN <<[category |-> "Enhancement",
           recommendation |-> "Leverage fast transaction processing as a competitive advantage. Market this feature prominently.",
           priority |-> "Low"]>>
    ELSE <<>>

RECURSIVE Concat(_)
Concat(seqs) == IF seqs = <<>> THEN <<>> ELSE Head(seqs) \o Concat(Tail(seqs))

\* the loop of line 110: the recommendations of the pain points, in the
\* order of the list
PainPointRecommendations(list) ==
    Concat([i \in DOMAIN list |-> PainPointRecommendation(list[i].theme)])

\* the loop of line 145: the recommendations of the drivers, in the order of
\* the list
DriverRecommendations(list) ==
    Concat([i \in DOMAIN list |-> DriverRecommendation(list[i].theme)])

\* the recommendations with those of the drivers first
DriversFirst(ins) ==
    DriverRecommendations(ins.drivers)
        \o PainPointRecommendations(ins.pain_points)

\* lines 107-154, for the InsightSet of line 106
Recommendations(ins) ==
    PainPointRecommendations(ins.pain_points)
        \o DriverRecommendations(ins.drivers)

-----------------------------------------------------------------------------
(* The thematic run: main() of thematic_analysis.py extracts the keywords  *)
(* of the loaded reviews and classifies them; identify_themes_manual is    *)
(* also entered directly with a list of keyword strings.                   *)

MaxDocs == 3
MaxKeywords == 1
MaxKeywordRows == 2
DefaultMaxFeatures == 50

\* the values of the review column
RawTexts ==
    { NaN,
      <<" ","\t">>,
      <<"5","/","5"," ","!","!">>,
      <<"L","o","g","i","n">>,
      <<"l","o","g","i","n"," "," ","f","a","i","l","e","d","!">>,
      <<"t","h","e"," ","a","p","p"," ","i","s"," ","s","l","o","w">>,
      <<"S","l","o","w">> }

\* the max_features arguments: the default, and one that cuts the vocabulary
MaxFeaturesInputs == {2, DefaultMaxFeatures}

\* the terms of the keyword strings handed to identify_themes_manual directly
KeywordTerms ==
    { <<"S","u","p","p","o","r","t">>,
      <<"d","e","s","i","g","n">>,
      <<"l","o","g","i","n"," ","u","n","s","t","a","b","l","e">>,
      <<"n","i","c","e">> }

RECURSIVE SeqsUpTo(_, _)
SeqsUpTo(S, n) ==
    IF n = 0 THEN {<<>>}
    ELSE LET shorter == SeqsUpTo(S, n - 1)
         IN  shorter \cup {Append(s, x) : s \in {t \in shorter : Len(t) = n - 1}, x \in S}

KeywordStrings ==
    {Join(ts, CommaSpace) : ts \in SeqsUpTo(KeywordTerms, MaxKeywords)}

PreprocessIdle ==
    /\ raw_df = <<>>
    /\ processed_df = <<>>

\* scrape_reviews has not been called
ScraperIdle ==
    /\ count_arg = 0
    /\ collected = 0
    /\ continuation_token = None
    /\ current_batch = 0
    /\ returned = <<>>

\* identify_themes_by_bank, the second run and main() of main.py have not been
\* entered, and the texts of extract_keywords_tfidf are not kept
RunOnce ==
    /\ bank_themes = <<>>
    /\ keywords_again = <<>>
    /\ themes_again = <<>>
    /\ processed_texts = <<>>
    /\ started = <<>>
    /\ outcome = <<>>
    /\ complete = FALSE
    /\ bank_index = 0
    /\ ScraperIdle

InsightsIdle ==
    /\ df = <<>>
    /\ columns = {}
    /\ bank_name = NoBank
    /\ top_positive_themes = <<>>
    /\ top_negative_themes = <<>>
    /\ low_rating_themes = <<>>
    /\ high_rating_themes = <<>>
    /\ insights = [drivers |-> <<>>, pain_points |-> <<>>]
    /\ recommendations = <<>>

Init ==
    /\ \/ /\ pc = "extract"
          /\ reviews \in SeqsUpTo(RawTexts, MaxDocs)
          /\ max_features \in MaxFeaturesInputs
          /\ keywords_list = <<>>
       \/ /\ pc = "identify"
          /\ reviews = <<>>
          /\ max_features = DefaultMaxFeatures
          /\ keywords_list \in SeqsUpTo(KeywordStrings, MaxKeywordRows)
    /\ feature_names = <<>>
    /\ review_themes = <<>>
    /\ RunOnce
    /\ InsightsIdle
    /\ PreprocessIdle

\* keywords_list, feature_names = extract_keywords_tfidf(df)
ExtractKeywords ==
    /\ pc = "extract"
    /\ \E r \in extract_keywords_tfidf(reviews, max_features) :
          /\ keywords_list' = r.keywords_list
          /\ feature_names' = r.feature_names
    /\ pc' = "identify"
    /\ UNCHANGED <<reviews, max_features, review_themes, bank_themes,
                   keywords_again, themes_again, insights_vars, preprocess_vars,
                   run_vars>>

\* themes = identify_themes_manual(keywords_list, df)
IdentifyThemes ==
    /\ pc = "identify"
    /\ review_themes' = identify_themes_manual(keywords_list)
    /\ pc' = "themes"
    /\ UNCHANGED <<reviews, max_features, keywords_list, feature_names, bank_themes,
                   keywords_again, themes_again, insights_vars, preprocess_vars,
                   run_vars>>

Next == ExtractKeywords \/ IdentifyThemes

Spec == Init /\ [][Next]_vars

-----------------------------------------------------------------------------
(* Two runs of the keyword extractor and the theme classifier on one corpus *)

\* a sort that may order equal scores differently each time it is called
AnyCandidate(candidates, first) == candidates

\* scores.argsort() (line 72) and the sort of the max_features cut called
\* again on the array they were called on before: the sort is a function of
\* its array, so where equal scores left several outcomes it returns the one
\* it returned the first time
Resolve(candidates, first) ==
    IF Cardinality(candidates) = 1 THEN candidates ELSE candidates \cap {first}

\* lines 67-76 of the second call, rows 1..n
RECURSIVE KeywordListsAgain(_, _, _, _, _)
KeywordListsAgain(n, texts, grams, V, first_keywords) ==
    IF n = 0 THEN {<<>>}
    ELSE {Append(kl, k) :
              kl \in KeywordListsAgain(n - 1, texts, grams, V, first_keywords),
              k \in Resolve(KeywordsOfRow(n, texts, grams, V), first_keywords[n])}

\* extract_keywords_tfidf(df) called a second time on the same table by the
\* same installation, whose first call returned first_keywords and
\* first_names
extract_keywords_again(review_column, limit, first_keywords, first_names) ==
    LET texts == [i \in DOMAIN review_column |-> preprocess_text(review_column[i])]
        grams == Analyze(texts)
    IN  IF VectorizerFails(grams)
        THEN {[keywords_list |-> [i \in DOMAIN texts |-> <<>>],
               feature_names |-> <<>>]}
        ELSE UNION { {[keywords_list |-> kl, feature_names |-> SortedTerms(V)] :
                         kl \in KeywordListsAgain(Len(texts), texts, grams, V,
                                                  first_keywords)} :
                     V \in Resolve(Vocabularies(grams, limit),
                                   SeqToSet(first_names)) }

\* main() entered again on the same file: lines 237-242
RunAgain ==
    /\ pc = "themes"
    /\ \E r \in extract_keywords_again(reviews, max_features, keywords_list,
                                       feature_names) :
          /\ keywords_again' = r.keywords_list
          /\ themes_again' = identify_themes_manual(r.keywords_list)
    /\ pc' = "again"
    /\ UNCHANGED <<reviews, max_features, keywords_list, feature_names, review_themes,
                   bank_themes, insights_vars, preprocess_vars, run_vars>>

InitTwice ==
    /\ Init
    /\ pc = "extract"

NextTwice == ExtractKeywords \/ IdentifyThemes \/ RunAgain

SpecTwice == InitTwice /\ [][NextTwice]_vars

-----------------------------------------------------------------------------
(* The thematic run on corpora with a review of more than five terms *)

MaxRichDocs == 3

RichTexts ==
    { <<"s","l","o","w"," ","s","l","o","w"," ","s","l","o","w"," ","s","l","o","w"," ","a","p","p"," ","a","p","p"," ","a","p","p"," ","c","r","a","s","h">>,
      <<"A","p","p"," ","c","r","a","s","h">>,
      NaN }

InitRich ==
    /\ pc = "extract"
    /\ reviews \in SeqsUpTo(RichTexts, MaxRichDocs)
    /\ max_features \in MaxFeaturesInputs
    /\ keywords_list = <<>>
    /\ feature_names = <<>>
    /\ review_themes = <<>>
    /\ RunOnce
    /\ InsightsIdle
    /\ PreprocessIdle

SpecRich == InitRich /\ [][Next]_vars


-----------------------------------------------------------------------------------------------------------------------------------------------------
(* The insights run: generate_recommendations, which calls                 *)
(* identify_drivers_and_pain_points, on the table load_data() returns.     *)
(* Neither result depends on the order of the rows (value_counts does not  *)
(* fix the order of themes of equal count), so the tables are enumerated   *)
(* up to the order of their rows.  SpecInsights takes its rows from every  *)
(* combination of sentiment and rating; SpecRecommend takes them from      *)
(* every theme of the taxonomy.                                            *)

MaxReviews == 4
MaxRecommendReviews == 4

Sentiments == {"POSITIVE", "NEGATIVE", "NEUTRAL"}
Ratings == {LowRating, 3, HighRating}

\* the rows of the tables of SpecInsights
RowKindSet ==
    [bank : {"CBE"}, sentiment_label : Sentiments, rating : Ratings,
     theme : {"Transaction Performance"}]
    \cup
    [bank : {"CBE"}, sentiment_label : {"NEGATIVE"}, rating : {LowRating},
     theme : {"Account Access Issues", "Customer Support", "Other", "", NaNTheme}]
    \cup
    [bank : {"CBE"}, sentiment_label : {"POSITIVE"}, rating : {HighRating},
     theme : {"Account Access Issues", "Other"}]
    \cup
    [bank : {"BOA"}, sentiment_label : {"NEGATIVE"}, rating : {LowRating},
     theme : {"Account Access Issues"}]

\* the rows of the tables of SpecRecommend
RecommendRowKindSet ==
    [bank : {"CBE"}, sentiment_label : {"NEGATIVE"}, rating : {LowRating},
     theme : ThemeNames]
    \cup
    [bank : {"CBE"}, sentiment_label : {"POSITIVE"}, rating : {HighRating},
     theme : ThemeNames]

RECURSIVE SetToSeq(_)
SetToSeq(S) ==
    IF S = {} THEN <<>>
    ELSE LET x == CHOOSE y \in S : TRUE IN <<x>> \o SetToSeq(S \ {x})

AllColumns == {"sentiment_label", "rating", "theme"}
ColumnSets == SUBSET AllColumns

\* the row without the columns the table lacks
Project(r, cols) ==
    [bank |-> r.bank,
     sentiment_label |-> IF "sentiment_label" \in cols THEN r.sentiment_label ELSE Absent,
     rating |-> IF "rating" \in cols THEN r.rating ELSE Absent,
     theme |-> IF "theme" \in cols THEN r.theme ELSE Absent]

\* the rows of a table that has the columns cols, in a fixed order
RowKinds == [cols \in ColumnSets |-> SetToSeq({Project(r, cols) : r \in RowKindSet})]
RecommendRowKinds == SetToSeq(RecommendRowKindSet)

KindOf(row, kinds) == CHOOSE k \in DOMAIN kinds : kinds[k] = row

BankFilters == {NoBank, "CBE"}

ThematicIdle ==
    /\ reviews = <<>>
    /\ max_features = DefaultMaxFeatures
    /\ keywords_list = <<>>
    /\ feature_names = <<>>
    /\ review_themes = <<>>
    /\ RunOnce

NothingComputed ==
    /\ top_positive_themes = <<>>
    /\ top_negative_themes = <<>>
    /\ low_rating_themes = <<>>
    /\ high_rating_themes = <<>>
    /\ insights = [drivers |-> <<>>, pain_points |-> <<>>]
    /\ recommendations = <<>>

InitInsights ==
    /\ pc = "load"
    /\ columns \in ColumnSets
    /\ df = <<>>
    /\ bank_name \in BankFilters
    /\ NothingComputed
    /\ ThematicIdle
    /\ PreprocessIdle

InitRecommend ==
    /\ pc = "load"
    /\ columns = AllColumns
    /\ df = <<>>
    /\ bank_name = "CBE"
    /\ NothingComputed
    /\ ThematicIdle
    /\ PreprocessIdle

\* load_data(): one more row of the file is read
LoadRow(kinds, limit) ==
    /\ pc = "load"
    /\ Len(df) < limit
    /\ \E k \in DOMAIN kinds :
          /\ IF df = <<>> THEN TRUE ELSE k >= KindOf(df[Len(df)], kinds)
          /\ df' = Append(df, kinds[k])
    /\ UNCHANGED <<pc, columns, bank_name, top_positive_themes, top_negative_themes,
                   low_rating_themes, high_rating_themes, insights, recommendations,
                   thematic_vars, preprocess_vars, run_vars>>

LoadInsightsRow == LoadRow(RowKinds[columns], MaxReviews)
LoadRecommendRow == LoadRow(RecommendRowKinds, MaxRecommendReviews)

\* insights = identify_drivers_and_pain_points(df, bank_name) (lines 31-101)
Identify ==
    LET bank_df == BankRows(df, bank_name)
        positive_reviews == PositiveReviews(bank_df, columns)
        negative_reviews == NegativeReviews(bank_df, columns)
        low_ratings == LowRatings(bank_df, columns)
        high_ratings == HighRatings(bank_df, columns)
    IN  \E tp \in HeadIfTaken(SentimentBranch(columns, positive_reviews),
                              positive_reviews, SentimentHead),
           tn \in HeadIfTaken(SentimentBranch(columns, negative_reviews),
                              negative_reviews, SentimentHead),
           lr \in HeadIfTaken(RatingBranch(columns, low_ratings),
                              low_ratings, RatingHead),
           hr \in HeadIfTaken(RatingBranch(columns, high_ratings),
                              high_ratings, RatingHead) :
            /\ top_positive_themes' = tp
            /\ top_negative_themes' = tn
            /\ low_rating_themes' = lr
            /\ high_rating_themes' = hr
            /\ insights' = BuildInsights(tp, tn, lr, hr,
                                         Len(positive_reviews), Len(negative_reviews),
                                         Len(low_ratings), Len(high_ratings))

\* recommendations = generate_recommendations(df, bank_name): the call of
\* identify_drivers_and_pain_points at line 106, then the two loops
GenerateRecommendations ==
    /\ pc = "load"
    /\ Identify
    /\ recommendations' = Recommendations(insights')
    /\ pc' = "recommended"
    /\ UNCHANGED <<df, columns, bank_name, thematic_vars, preprocess_vars, run_vars>>

NextInsights == LoadInsightsRow \/ GenerateRecommendations

SpecInsights == InitInsights /\ [][NextInsights]_vars

NextRecommend == LoadRecommendRow \/ GenerateRecommendations

SpecRecommend == InitRecommend /\ [][NextRecommend]_vars

-----------------------------------------------------------------------------
(* The whole run: main() of thematic_analysis.py on a file of reviews with  *)
(* their bank, rating and sentiment, the file it writes read back by        *)
(* load_data(), and generate_recommendations on that table.  The files are  *)
(* the selections of rows, in order, of ReviewFile.                         *)

ReviewFile ==
    << [review |-> <<"l","o","g","i","n"," ","f","a","i","l","e","d">>,
        bank |-> "CBE", rating |-> 1, sentiment_label |-> "NEGATIVE"],
       [review |-> <<"S","l","o","w">>,
        bank |-> "BOA", rating |-> 2, sentiment_label |-> "NEGATIVE"],
       [review |-> <<"l","o","g","i","n"," ","f","a","i","l","e","d">>,
        bank |-> "CBE", rating |-> 1, sentiment_label |-> "NEGATIVE"],
       [review |-> <<"g","r","e","a","t"," ","t","r","a","n","s","f","e","r"," ","s","p","e","e","d">>,
        bank |-> "CBE", rating |-> 5, sentiment_label |-> "POSITIVE"],
       [review |-> <<"t","h","e"," ","a","p","p"," ","i","s"," ","s","l","o","w">>,
        bank |-> "CBE", rating |-> 4, sentiment_label |-> "POSITIVE"],
       [review |-> <<"5","/","5"," ","!","!">>,
        bank |-> "BOA", rating |-> 5, sentiment_label |-> "POSITIVE"] >>

\* the rows of s at the positions in keep, in order
RECURSIVE Selection(_, _, _)
Selection(s, keep, i) ==
    IF i > Len(s) THEN <<>>
    ELSE (IF i \in keep THEN <<s[i]>> ELSE <<>>) \o Selection(s, keep, i + 1)

ReviewFiles == {Selection(ReviewFile, keep, 1) : keep \in SUBSET DOMAIN ReviewFile}

\* pd.read_csv(input_file): the table has no theme column yet
InitPipeline ==
    /\ pc = "extract"
    /\ \E file \in ReviewFiles :
          /\ reviews = [i \in DOMAIN file |-> file[i].review]
          /\ df = [i \in DOMAIN file |->
                      [bank |-> file[i].bank,
                       sentiment_label |-> file[i].sentiment_label,
                       rating |-> file[i].rating,
                       theme |-> Absent]]
    /\ columns = {"sentiment_label", "rating"}
    /\ bank_name \in {"CBE", "BOA"}
    /\ max_features = DefaultMaxFeatures
    /\ keywords_list = <<>>
    /\ feature_names = <<>>
    /\ review_themes = <<>>
    /\ RunOnce
    /\ NothingComputed
    /\ PreprocessIdle

\* df['bank'].unique(): the banks in the order of their first row
RECURSIVE Unique(_)
Unique(s) ==
    IF s = <<>> THEN <<>>
    ELSE LET rest == Unique(SubSeq(s, 1, Len(s) - 1))
         IN  IF \E i \in DOMAIN rest : rest[i] = s[Len(s)]
             THEN rest ELSE Append(rest, s[Len(s)])

\* an index that numbers the rows of each bank from the first
PositionsInBank(table, bank) ==
    LET n == Cardinality({i \in DOMAIN table : table[i].bank = bank})
    IN  [i \in 1..n |-> i]

\* bank_df.index (line 201): the labels of the rows of the bank; the index
\* of a table read by read_csv is the range of its row positions
BankIndices(table, bank) ==
    SelectSeq([i \in DOMAIN table |-> i], LAMBDA i : table[i].bank = bank)

\* identify_themes_by_bank(df, keywords_list) (lines 191-214): its dict
identify_themes_by_bank(table, kws) ==
    LET banks == Unique([i \in DOMAIN table |-> table[i].bank])
    IN  [bank \in SeqToSet(banks) |->
            LET bank_indices == BankIndices(table, bank)
                bank_keywords == [k \in DOMAIN bank_indices |-> kws[bank_indices[k]]]
            IN  identify_themes_manual(bank_keywords)]

\* bank_themes = identify_themes_by_bank(df, keywords_list) (line 245)
IdentifyThemesByBank ==
    /\ pc = "themes"
    /\ bank_themes' = identify_themes_by_bank(df, keywords_list)
    /\ pc' = "by_bank"
    /\ UNCHANGED <<reviews, max_features, keywords_list, feature_names, review_themes,
                   keywords_again, themes_again, insights_vars, preprocess_vars,
                   run_vars>>

\* a value of the theme column written by to_csv and read by read_csv: an
\* empty field is read as a missing value
ReadBack(theme) == IF theme = "" THEN NaNTheme ELSE theme

\* df['theme'] = themes and df.to_csv(output_file) (lines 242, 249), and
\* load_data() reading the file (generate_insights.py:25)
SaveThemes ==
    /\ pc = "by_bank"
    /\ df' = [i \in DOMAIN df |-> [df[i] EXCEPT !.theme = ReadBack(review_themes[i])]]
    /\ columns' = columns \cup {"theme"}
    /\ pc' = "load"
    /\ UNCHANGED <<bank_name, top_positive_themes, top_negative_themes,
                   low_rating_themes, high_rating_themes, insights, recommendations,
                   thematic_vars, preprocess_vars, run_vars>>

NextPipeline ==
    \/ ExtractKeywords
    \/ IdentifyThemes
    \/ IdentifyThemesByBank
    \/ SaveThemes
    \/ GenerateRecommendations

SpecPipeline == InitPipeline /\ [][NextPipeline]_vars


-----------------------------------------------------------------------------
(* Claims about the classifier, checked under Spec *)

\* the triggers of the t-th theme of the taxonomy that are in the
\* lower-cased keyword string
TriggersIn(t, keywords) ==
    LET lowered == Lower(keywords)
    IN  {k \in DOMAIN theme_patterns[t].patterns :
            IsSubstring(theme_patterns[t].patterns[k], lowered)}

\* the themes of the taxonomy, by their place in it, that have a trigger in
\* the lower-cased keyword string
Triggered(keywords) ==
    LET lowered == Lower(keywords)
    IN  {t \in DOMAIN theme_patterns :
            \E k \in DOMAIN theme_patterns[t].patterns :
                IsSubstring(theme_patterns[t].patterns[k], lowered)}

Classified == pc = "themes"

\* C1: for every non-empty keyword string of which some theme has a trigger,
\* the assigned theme is the earliest theme of the taxonomy, in declaration
\* order, that has a trigger in the lower-cased string.
C1_FirstMatchWins ==
    Classified =>
        \A idx \in DOMAIN keywords_list :
            LET matching == Triggered(keywords_list[idx])
            IN  (keywords_list[idx] # <<>> /\ matching # {}) =>
                    \E a \in matching :
                        /\ review_themes[idx] = theme_patterns[a].theme
                        /\ \A t \in matching : a <= t

\* a keyword string is given the earlier theme although a later theme has
\* more triggers in it
C1_Witness ==
    /\ Classified
    /\ \E idx \in DOMAIN keywords_list :
          \E a, t \in DOMAIN theme_patterns :
              /\ a < t
              /\ review_themes[idx] = theme_patterns[a].theme
              /\ Cardinality(TriggersIn(t, keywords_list[idx]))
                    > Cardinality(TriggersIn(a, keywords_list[idx]))
              /\ TriggersIn(a, keywords_list[idx]) # {}

\* a review without a letter: missing, blank, or no alphabetic character
HasNoLetter(text) == text = NaN \/ \A k \in DOMAIN text : ~IsAlpha(text[k])

Extracted == pc \in {"identify", "themes"} /\ reviews # <<>>

\* C7: a review without a letter gets the keyword string '' from
\* extract_keywords_tfidf, and a keyword string '' gets the theme '' from
\* identify_themes_manual.
C7_EmptyInputLaw ==
    /\ Extracted =>
          \A i \in DOMAIN reviews :
              HasNoLetter(reviews[i]) => keywords_list[i] = <<>>
    /\ Classified =>
          \A idx \in DOMAIN keywords_list :
              keywords_list[idx] = <<>> => review_themes[idx] = ""

\* the vectorizer succeeded, a review without a letter got '' and the theme
\* '', and another review of the corpus got keywords and a taxonomy theme
C7_Witness ==
    /\ Classified
    /\ feature_names # <<>>
    /\ \E i, j \in DOMAIN reviews :
          /\ HasNoLetter(reviews[i])
          /\ reviews[i] # NaN
          /\ keywords_list[i] = <<>>
          /\ review_themes[i] = ""
          /\ keywords_list[j] # <<>>
          /\ review_themes[j] \in ThemeNames

\* C8: identify_themes_manual returns one label per keyword string; each
\* label is a taxonomy theme, 'Other' or ''; and the label is 'Other' exactly
\* when the keyword string is not empty and holds no trigger of any theme.
C8_ClassifierTotality ==
    Classified =>
        /\ Len(review_themes) = Len(keywords_list)
        /\ \A idx \in DOMAIN review_themes :
              /\ review_themes[idx] \in ThemeNames \cup {"Other", ""}
              /\ review_themes[idx] = "Other" <=>
                    (keywords_list[idx] # <<>> /\ Triggered(keywords_list[idx]) = {})

\* a list of two keyword strings, the first labelled 'Other' and the second
\* with a taxonomy theme
C8_Witness ==
    /\ Classified
    /\ Len(keywords_list) = 2
    /\ review_themes[1] = "Other"
    /\ review_themes[2] \in ThemeNames

-----------------------------------------------------------------------------
(* Claims about the insights, checked under SpecInsights (C2 to C6) and   *)
(* under SpecRecommend (C9, C10)                                            *)

Reported == pc = "recommended"

Lists == {"drivers", "pain_points"}

\* the rows of the selected bank
InBank(r) == bank_name = NoBank \/ r.bank = bank_name

\* the four segments a list draws from
SentimentOf(list) == IF list = "drivers" THEN "POSITIVE" ELSE "NEGATIVE"
InSentimentSegment(r, list) == InBank(r) /\ r.sentiment_label = SentimentOf(list)
InRatingSegment(r, list) ==
    /\ InBank(r)
    /\ "rating" \in columns
    /\ IF list = "drivers" THEN r.rating >= 4 ELSE r.rating <= 2

SentimentSegment(list) == {i \in DOMAIN df : InSentimentSegment(df[i], list)}
RatingSegment(list) == {i \in DOMAIN df : InRatingSegment(df[i], list)}

CountIn(segment, theme) == Cardinality({i \in segment : df[i].theme = theme})

\* the ranking head the sentiment pass of a list read, and the one its
\* rating pass read
SentimentTop(list) ==
    IF list = "drivers" THEN top_positive_themes ELSE top_negative_themes
RatingTop(list) ==
    IF list = "drivers" THEN high_rating_themes ELSE low_rating_themes

Surfaces(theme) == theme \notin {"", "Other"}

\* the number of entries of a list that its sentiment pass wrote
Seeded(list) ==
    Cardinality({i \in DOMAIN SentimentTop(list) : Surfaces(SentimentTop(list)[i].theme)})

ThemesOf(entries) == {entries[i].theme : i \in DOMAIN entries}

\* C2: no theme is twice in drivers, and no theme is twice in pain_points.
C2_NoDuplicateTheme ==
    Reported =>
        \A list \in Lists :
            \A i, j \in DOMAIN insights[list] :
                i # j => insights[list][i].theme # insights[list][j].theme

\* a theme that both the sentiment pass and the rating pass of pain_points
\* came upon
C2_Witness ==
    /\ Reported
    /\ \E theme \in ThemesOf(top_negative_themes) \cap ThemesOf(low_rating_themes) :
          /\ Surfaces(theme)
          /\ theme \in ThemesOf(insights.pain_points)

\* the taxonomy themes that occur in the sentiment segment of a list
SegmentThemes(list) ==
    {df[i].theme : i \in SentimentSegment(list)} \ {"", "Other", NaNTheme, Absent}

Min(a, b) == IF a <= b THEN a ELSE b

\* C3: the sentiment-derived part of a list is the (up to) 3 highest-count
\* taxonomy themes of its sentiment segment: '' and 'Other' take no place
\* in the ranking.
C3_TopThreeOfFilteredTally ==
    (Reported /\ {"sentiment_label", "theme"} \subseteq columns) =>
        \A list \in Lists :
            /\ Seeded(list) = Min(3, Cardinality(SegmentThemes(list)))
            /\ \A i \in 1..Seeded(list) :
                  \A theme \in SegmentThemes(list) \ ThemesOf(SubSeq(insights[list], 1, Seeded(list))) :
                      insights[list][i].count >= CountIn(SentimentSegment(list), theme)

\* exact equality of the stored fraction with 100 * count / n
IsPercentage(percentage, count, n) ==
    n > 0 /\ percentage.num * n = 100 * count * percentage.den

\* C4: every Insight has percentage = 100 * count / N with N the size of
\* the segment the entry was taken from and count the number of reviews of
\* that segment carrying the theme: the sentiment segment for the entries
\* the sentiment pass wrote, the rating segment for the others.
C4_SegmentDenominator ==
    Reported =>
        \A list \in Lists :
            \A i \in DOMAIN insights[list] :
                LET e == insights[list][i]
                    segment == IF i <= Seeded(list) THEN SentimentSegment(list)
                               ELSE RatingSegment(list)
                IN  /\ e.count = CountIn(segment, e.theme)
                    /\ IsPercentage(e.percentage, e.count, Cardinality(segment))

\* pain_points holds a sentiment-derived and a rating-derived entry, and the
\* two segments differ in size
C4_Witness ==
    /\ Reported
    /\ Seeded("pain_points") >= 1
    /\ Len(insights.pain_points) > Seeded("pain_points")
    /\ Cardinality(SentimentSegment("pain_points")) # Cardinality(RatingSegment("pain_points"))

\* C5: a theme that is among the top sentiment themes of a list and among
\* its top 2 rating themes has a single entry in the list, with the count
\* and the percentage of the sentiment segment; the entries the sentiment
\* pass wrote are still the first entries of the list, in its order.
C5_FirstWriterWins ==
    Reported =>
        \A list \in Lists :
            /\ \A theme \in ThemesOf(SentimentTop(list)) \cap ThemesOf(RatingTop(list)) :
                  Surfaces(theme) =>
                      /\ Cardinality({i \in DOMAIN insights[list] :
                                         insights[list][i].theme = theme}) = 1
                      /\ \A i \in DOMAIN insights[list] :
                            insights[list][i].theme = theme =>
                                /\ insights[list][i].count =
                                      CountIn(SentimentSegment(list), theme)
                                /\ IsPercentage(insights[list][i].percentage,
                                                insights[list][i].count,
                                                Cardinality(SentimentSegment(list)))
            /\ LET seeds == SelectSeq(SentimentTop(list), LAMBDA e : Surfaces(e.theme))
               IN  /\ Len(insights[list]) >= Len(seeds)
                   /\ \A i \in DOMAIN seeds :
                         /\ insights[list][i].theme = seeds[i].theme
                         /\ insights[list][i].count = seeds[i].count

\* a theme found by both passes of pain_points, with a different count and
\* a different segment size in the two segments
C5_Witness ==
    /\ Reported
    /\ \E theme \in ThemesOf(top_negative_themes) \cap ThemesOf(low_rating_themes) :
          /\ Surfaces(theme)
          /\ CountIn(SentimentSegment("pain_points"), theme)
                # CountIn(RatingSegment("pain_points"), theme)
          /\ Cardinality(SentimentSegment("pain_points"))
                # Cardinality(RatingSegment("pain_points"))

\* C6: no Insight has the theme '' or 'Other'.
C6_NoOtherNoEmptyTheme ==
    Reported =>
        \A list \in Lists :
            \A i \in DOMAIN insights[list] :
                insights[list][i].theme \notin {"", "Other"}

\* 'Other' and '' were both among the top themes read, and an Insight was
\* written
C6_Witness ==
    /\ Reported
    /\ "Other" \in ThemesOf(top_negative_themes)
    /\ "" \in ThemesOf(low_rating_themes)
    /\ insights.pain_points # <<>>

\* the recommendation the mapping fixes for a pain point of a theme, and for
\* a driver of a theme: <<category, priority>>, or none
PainPointMapping ==
       "Account Access Issues" :> <<"Account Access", "High">>
    @@ "Transaction Performance" :> <<"Performance", "High">>
    @@ "User Interface & Experience" :> <<"UX/UI", "Medium">>
    @@ "Customer Support" :> <<"Support", "High">>
    @@ "App Reliability" :> <<"Stability", "Critical">>

Expected(list, theme) ==
    IF list = "pain_points"
    THEN IF theme \in DOMAIN PainPointMapping THEN <<PainPointMapping[theme]>> ELSE <<>>
    ELSE IF theme = "Transaction Performance" THEN <<<<"Enhancement", "Low">>>> ELSE <<>>

\* what is recommended: the category and the priority of each entry
Recommended == [i \in DOMAIN recommendations |->
                   <<recommendations[i].category, recommendations[i].priority>>]

\* the entries of a list whose theme maps to the recommendation rec
MappedTo(list, rec) ==
    {i \in DOMAIN insights[list] : Expected(list, insights[list][i].theme) = <<rec>>}

AllRecommendations ==
    {PainPointMapping[t] : t \in DOMAIN PainPointMapping} \cup {<<"Enhancement", "Low">>}

\* C9: each pain point yields the one recommendation fixed by its theme,
\* or none for Feature Requests and Security & Privacy; each driver yields
\* (Enhancement, Low) if and only if it is Transaction Performance; so there
\* are at most as many recommendations as pain points and drivers.
C9_RecommendationMapping ==
    Reported =>
        /\ \A rec \in AllRecommendations :
              Cardinality({i \in DOMAIN Recommended : Recommended[i] = rec})
                 = Cardinality(MappedTo("pain_points", rec))
                      + Cardinality(MappedTo("drivers", rec))
        /\ \A i \in DOMAIN Recommended : Recommended[i] \in AllRecommendations
        /\ Len(recommendations) <= Len(insights.pain_points) + Len(insights.drivers)

\* pain points with and without a recommendation, drivers with and without
C9_Witness ==
    /\ Reported
    /\ \E i, j \in DOMAIN insights.pain_points :
          /\ Expected("pain_points", insights.pain_points[i].theme) = <<>>
          /\ Expected("pain_points", insights.pain_points[j].theme) # <<>>
    /\ \E i, j \in DOMAIN insights.drivers :
          /\ Expected("drivers", insights.drivers[i].theme) = <<>>
          /\ Expected("drivers", insights.drivers[j].theme) # <<>>

RECURSIVE ExpectedOf(_, _)
ExpectedOf(list, entries) ==
    IF entries = <<>> THEN <<>>
    ELSE Expected(list, Head(entries).theme) \o ExpectedOf(list, Tail(entries))

\* C10: the recommendations of the pain points come first, in the order of
\* pain_points, then those of the drivers, in the order of drivers, and
\* none is removed as a duplicate.
C10_RecommendationOrder ==
    Reported =>
        Recommended = ExpectedOf("pain_points", insights.pain_points)
                         \o ExpectedOf("drivers", insights.drivers)

\* Transaction Performance is a pain point and a driver, after another pain
\* point that has a recommendation: 'Performance' and 'Enhancement' are both
\* recommended
C10_Witness ==
    /\ Reported
    /\ Len(insights.pain_points) >= 2
    /\ insights.pain_points[2].theme = "Transaction Performance"
    /\ Expected("pain_points", insights.pain_points[1].theme) # <<>>
    /\ "Transaction Performance" \in ThemesOf(insights.drivers)
    /\ Len(recommendations) = 3

-----------------------------------------------------------------------------
(* Claim about the terms of the keyword strings, checked under SpecPipeline *)

\* the terms of a keyword string: its parts between ', '
RECURSIVE Split(_, _)
Split(s, cur) ==
    IF s = <<>> THEN (IF cur = <<>> THEN <<>> ELSE <<cur>>)
    ELSE IF Len(s) >= 2 /\ s[1] = "," /\ s[2] = " "
    THEN <<cur>> \o Split(SubSeq(s, 3, Len(s)), <<>>)
    ELSE Split(Tail(s), Append(cur, Head(s)))

TermsOf(keywords) == Split(keywords, <<>>)

\* the unigrams and bigrams of each review of the corpus
TermsOfReviews ==
    [j \in DOMAIN reviews |-> SeqToSet(Ngrams(preprocess_text(reviews[j])))]

\* the documents a term occurs in
Holders(corpus, term) == {j \in DOMAIN corpus : term \in corpus[j]}

\* C12: no keyword string holds a term that occurs in fewer than 2
\* documents of the corpus, and a review all of whose terms are unique to it
\* gets the keyword string ''.
C12_DocumentFrequencyFloor ==
    (pc = "identify" /\ reviews # <<>>) =>
        LET corpus == TermsOfReviews
        IN  \A i \in DOMAIN reviews :
                LET terms == TermsOf(keywords_list[i])
                IN  /\ \A k \in DOMAIN terms :
                          Cardinality(Holders(corpus, terms[k])) >= 2
                    /\ (\A t \in corpus[i] : Holders(corpus, t) = {i})
                          => keywords_list[i] = <<>>

\* a review with keywords that also has a term of its own, and a review with
\* terms that are all its own
C12_Witness ==
    /\ pc = "identify"
    /\ LET corpus == TermsOfReviews
       IN  \E i, j \in DOMAIN reviews :
              /\ keywords_list[i] # <<>>
              /\ \E t \in corpus[i] : Holders(corpus, t) = {i}
              /\ corpus[j] # {}
              /\ \A t \in corpus[j] : Holders(corpus, t) = {j}
              /\ keywords_list[j] = <<>>

-----------------------------------------------------------------------------
(* Further claims about the insights, checked under SpecInsights *)

\* the entries of a list are taken from a segment: each has the count of
\* its theme in the segment
TakenFrom(entries, segment) ==
    \A i \in DOMAIN entries : entries[i].count = CountIn(segment, entries[i].theme)

\* C14: identify_drivers_and_pain_points returns for a table that lacks the
\* sentiment_label, the theme or the rating column; without sentiment_label
\* both lists hold only rating-derived entries, at most 2 each; without
\* rating only sentiment-derived entries, at most 3 each; without theme both
\* lists are empty.
C14_MissingSegmentDegradation ==
    /\ pc = "load" => ENABLED GenerateRecommendations
    /\ Reported =>
          \A list \in Lists :
              /\ "sentiment_label" \notin columns =>
                    /\ Seeded(list) = 0
                    /\ Len(insights[list]) <= 2
                    /\ TakenFrom(insights[list], RatingSegment(list))
              /\ "rating" \notin columns =>
                    /\ Len(insights[list]) = Seeded(list)
                    /\ Len(insights[list]) <= 3
                    /\ TakenFrom(insights[list], SentimentSegment(list))
              /\ "theme" \notin columns => insights[list] = <<>>

\* a table without the sentiment_label column that gives two rating-derived
\* pain points
C14_Witness ==
    /\ Reported
    /\ columns = {"rating", "theme"}
    /\ Len(insights.pain_points) = 2

\* the segment the i-th entry of a list was taken from
SourceSegment(list, i) ==
    IF i <= Seeded(list) THEN SentimentSegment(list) ELSE RatingSegment(list)

\* C15: every Insight has 1 <= count <= size of its source segment and
\* 0 < percentage <= 100; a segment without a review contributes no Insight
\* and nothing is divided by zero.
C15_InsightBounds ==
    Reported =>
        \A list \in Lists :
            /\ \A i \in DOMAIN insights[list] :
                  LET e == insights[list][i]
                      size == Cardinality(SourceSegment(list, i))
                  IN  /\ size > 0
                      /\ 1 <= e.count
                      /\ e.count <= size
                      /\ e.percentage.den > 0
                      /\ 0 < e.percentage.num
                      /\ e.percentage.num <= 100 * e.percentage.den
            /\ SentimentSegment(list) = {} => Seeded(list) = 0
            /\ RatingSegment(list) = {} => Len(insights[list]) = Seeded(list)

\* the bank has no POSITIVE review, a driver comes from its high ratings, and
\* a pain point covers only a part of its segment
C15_Witness ==
    /\ Reported
    /\ SentimentSegment("drivers") = {}
    /\ insights.drivers # <<>>
    /\ \E i \in DOMAIN insights.pain_points :
          insights.pain_points[i].count
             < Cardinality(SourceSegment("pain_points", i))

\* the themes among the top themes read for a list
TopThemes(list) == ThemesOf(SentimentTop(list)) \cup ThemesOf(RatingTop(list))

\* C16: a theme among the top themes of a negative or low-rating segment
\* and among the top themes of a positive or high-rating segment is in both
\* pain_points and drivers.
C16_CrossListDuplication ==
    Reported =>
        \A theme \in TopThemes("pain_points") \cap TopThemes("drivers") :
            Surfaces(theme) =>
                /\ theme \in ThemesOf(insights.pain_points)
                /\ theme \in ThemesOf(insights.drivers)

\* a theme is in both lists
C16_Witness ==
    /\ Reported
    /\ ThemesOf(insights.pain_points) \cap ThemesOf(insights.drivers) # {}

-----------------------------------------------------------------------------
(* Claim about the size of the keyword strings, checked under SpecRich *)

\* C17: every keyword string holds at most 5 terms, all distinct, and each
\* is a term of the vocabulary that occurs among the unigrams and bigrams of
\* that review.
C17_KeywordSetSizeAndSupport ==
    Extracted =>
        \A i \in DOMAIN reviews :
            LET terms == TermsOf(keywords_list[i])
                own == SeqToSet(Ngrams(preprocess_text(reviews[i])))
            IN  /\ Len(terms) <= 5
                /\ \A k, l \in DOMAIN terms : k # l => terms[k] # terms[l]
                /\ \A k \in DOMAIN terms :
                      /\ \E f \in DOMAIN feature_names : feature_names[f] = terms[k]
                      /\ terms[k] \in own

\* a review in which more than 5 terms of the vocabulary occur got 5, and
\* the vocabulary has a term that does not occur in some review with keywords
C17_Witness ==
    /\ Extracted
    /\ LET corpus == TermsOfReviews
           vocabulary == SeqToSet(feature_names)
       IN  /\ \E i \in DOMAIN reviews :
                 /\ Cardinality(corpus[i] \cap vocabulary) > 5
                 /\ Len(TermsOf(keywords_list[i])) = 5
           /\ \E j \in DOMAIN reviews :
                 /\ keywords_list[j] # <<>>
                 /\ vocabulary \ corpus[j] # {}

-----------------------------------------------------------------------------
(* Claims about the whole run, checked under SpecPipeline *)

\* the reviews have their theme labels
Labelled == pc \in {"themes", "by_bank", "load", "recommended"}

\* the corpus of the example: three reviews of CBE
IsExample ==
    /\ reviews = << <<"l","o","g","i","n"," ","f","a","i","l","e","d">>,
                    <<"l","o","g","i","n"," ","f","a","i","l","e","d">>,
                    <<"g","r","e","a","t"," ","t","r","a","n","s","f","e","r"," ","s","p","e","e","d">> >>
    /\ [i \in DOMAIN df |-> <<df[i].bank, df[i].rating, df[i].sentiment_label>>]
          = << <<"CBE", 1, "NEGATIVE">>, <<"CBE", 1, "NEGATIVE">>,
               <<"CBE", 5, "POSITIVE">> >>
    /\ bank_name = "CBE"

Hundred == [num |-> 100, den |-> 1]

\* C11, as stated: in the example both negative reviews are labelled
\* 'Account Access Issues' and the positive review 'Transaction
\* Performance'; pain_points is [Account Access Issues, 2, 100.0], drivers is
\* [Transaction Performance, 1, 100.0] and the recommendations are
\* (Account Access, High), (Enhancement, Low).
C11_ExampleAsStated ==
    IsExample =>
        /\ Labelled =>
              review_themes = <<"Account Access Issues", "Account Access Issues",
                                "Transaction Performance">>
        /\ Reported =>
              /\ insights.pain_points =
                    <<[theme |-> "Account Access Issues", count |-> 2,
                       percentage |-> Hundred]>>
              /\ insights.drivers =
                    <<[theme |-> "Transaction Performance", count |-> 1,
                       percentage |-> Hundred]>>
              /\ Recommended = << <<"Account Access", "High">>,
                                  <<"Enhancement", "Low">> >>

\* C11: in the example both negative reviews are labelled 'Account Access
\* Issues'; the positive review, none of whose terms is in a second review,
\* gets the keyword string '' and the theme ''; pain_points is
\* [Account Access Issues, 2, 100.0], drivers is empty and the only
\* recommendation is (Account Access, High).
C11_ExampleScenario ==
    IsExample =>
        /\ Labelled =>
              /\ keywords_list[3] = <<>>
              /\ review_themes = <<"Account Access Issues", "Account Access Issues", "">>
        /\ Reported =>
              /\ insights.pain_points =
                    <<[theme |-> "Account Access Issues", count |-> 2,
                       percentage |-> Hundred]>>
              /\ insights.drivers = <<>>
              /\ Recommended = << <<"Account Access", "High">> >>

\* the example has run to its recommendations
C11_Witness == IsExample /\ Reported

\* the corpus is empty or none of its terms occurs in two documents
Degenerate ==
    LET corpus == TermsOfReviews
    IN  \A i \in DOMAIN corpus :
            \A t \in corpus[i] : Cardinality(Holders(corpus, t)) < 2

\* C13: on a corpus for which vectorization fails (an empty corpus, or no
\* term in two documents) extract_keywords_tfidf returns, with one keyword
\* string '' per review; every review is then labelled '' and no Insight is
\* produced.
C13_DegenerateCorpusRecovery ==
    /\ (Degenerate /\ pc = "extract") =>
          extract_keywords_tfidf(reviews, max_features) =
              {[keywords_list |-> [i \in DOMAIN reviews |-> <<>>],
                feature_names |-> <<>>]}
    /\ (Degenerate /\ pc # "extract") =>
          /\ Len(keywords_list) = Len(reviews)
          /\ \A i \in DOMAIN keywords_list : keywords_list[i] = <<>>
    /\ (Degenerate /\ Labelled) =>
          /\ Len(review_themes) = Len(reviews)
          /\ \A i \in DOMAIN review_themes : review_themes[i] = ""
    /\ (Degenerate /\ Reported) =>
          /\ insights.drivers = <<>>
          /\ insights.pain_points = <<>>

\* a corpus of reviews with terms, none in two of them; the bank has
\* NEGATIVE reviews and the run reached its end
C13_Witness ==
    /\ Reported
    /\ Degenerate
    /\ Len(reviews) >= 2
    /\ \E i \in DOMAIN reviews : TermsOfReviews[i] # {}
    /\ SentimentSegment("pain_points") # {}
    /\ RatingSegment("pain_points") # {}

\* the entries of labels at the rows of table that belong to bank, in row
\* order
RECURSIVE LabelsOfBank(_, _, _)
LabelsOfBank(labels, table, bank) ==
    IF labels = <<>> \/ table = <<>>
    THEN <<>>
    ELSE LET rest == LabelsOfBank(Tail(labels), Tail(table), bank)
         IN  IF Head(table).bank = bank THEN <<Head(labels)>> \o rest ELSE rest

\* C18: for every bank, the list identify_themes_by_bank returns is the
\* sub-sequence, in row order, of the labels identify_themes_manual gave to
\* the whole corpus; the call changes neither the table nor the keyword list
\* (the taxonomy ThemeKeywords is a constant of the module).
C18_PerBankClassificationPure ==
    [][(pc = "themes" /\ pc' = "by_bank") =>
          /\ DOMAIN bank_themes' = {df[i].bank : i \in DOMAIN df}
          /\ \A bank \in DOMAIN bank_themes' :
                 bank_themes'[bank] = LabelsOfBank(review_themes, df, bank)
          /\ df' = df
          /\ keywords_list' = keywords_list
          /\ review_themes' = review_themes
          /\ reviews' = reviews]_vars

\* the per-bank lists of a table whose two banks interleave, one of them not
\* labelled as the first rows of the table are
C18_Witness ==
    /\ pc = "by_bank"
    /\ DOMAIN bank_themes = {"CBE", "BOA"}
    /\ \E bank \in DOMAIN bank_themes :
           /\ bank_themes[bank] # SubSeq(review_themes, 1, Len(bank_themes[bank]))
           /\ \E i \in DOMAIN bank_themes[bank] : bank_themes[bank][i] # ""

-----------------------------------------------------------------------------
(* Claim about two runs, checked under SpecTwice *)

-----------------------------------------------------------------------------
(* preprocess_reviews.py: remove_duplicates, applied to a raw table and    *)
(* then to its own result.  A row carries the label read_csv gave it       *)
(* (index), which drop_duplicates keeps.                                   *)

MaxRawRows == 3

\* the values of the columns review, bank and rating of a raw row; the two
\* texts differ in case only
RawRows ==
    [review : {<<"O","k">>, <<"o","k">>, NaN}, bank : {"CBE", "BOA"}, rating : {1, 5}]

\* the table read_csv makes of the rows: a RangeIndex, from 0
WithIndex(rows) ==
    [i \in DOMAIN rows |->
        [index |-> i - 1, review |-> rows[i].review, bank |-> rows[i].bank,
         rating |-> rows[i].rating]]

InitPreprocess ==
    /\ pc = "raw"
    /\ raw_df \in {WithIndex(rows) : rows \in SeqsUpTo(RawRows, MaxRawRows)}
    /\ processed_df = <<>>
    /\ ThematicIdle
    /\ InsightsIdle

\* a duplicate test that looks at the review alone
DuplicatedReview(table) ==
    [i \in DOMAIN table |->
        \E j \in 1..(i - 1) : table[j].review = table[i].review]

\* df.duplicated(subset=['review', 'bank'], keep='first'): the rows that
\* repeat an earlier row in both columns; missing values count as equal
duplicated(table) ==
    [i \in DOMAIN table |->
        \E j \in 1..(i - 1) : /\ table[j].review = table[i].review
                              /\ table[j].bank = table[i].bank]

\* remove_duplicates(df) (lines 44-50)
remove_duplicates(table) ==
    LET dup == duplicated(table)
    IN  Selection(table, {i \in DOMAIN table : ~dup[i]}, 1)

\* df = remove_duplicates(df)
RemoveDuplicates ==
    /\ pc = "raw"
    /\ processed_df' = remove_duplicates(raw_df)
    /\ pc' = "deduplicated"
    /\ UNCHANGED <<raw_df, thematic_vars, insights_vars, run_vars>>

\* remove_duplicates applied to the table it returned
RemoveDuplicatesAgain ==
    /\ pc = "deduplicated"
    /\ raw_df' = processed_df
    /\ processed_df' = remove_duplicates(processed_df)
    /\ pc' = "deduplicated_again"
    /\ UNCHANGED <<thematic_vars, insights_vars, run_vars>>

NextPreprocess == RemoveDuplicates \/ RemoveDuplicatesAgain

SpecPreprocess == InitPreprocess /\ [][NextPreprocess]_vars

-----------------------------------------------------------------------------
(* Claim about remove_duplicates, checked under SpecPreprocess *)

\* the (review, bank) pair of a row
PairOf(row) == <<row.review, row.bank>>

\* C20: remove_duplicates returns one row for each distinct (review, bank)
\* pair of its input, the first such row in input order, and keeps the order
\* of the rows it retains; rows with the same review and different banks are
\* both kept; applied to its own result it returns it unchanged.
C20_RemoveDuplicates ==
    /\ pc = "deduplicated" =>
          /\ \A k \in DOMAIN processed_df :
                 \E i \in DOMAIN raw_df :
                     /\ processed_df[k] = raw_df[i]
                     /\ \A j \in 1..(i - 1) : PairOf(raw_df[j]) # PairOf(raw_df[i])
          /\ \A i \in DOMAIN raw_df :
                 Cardinality({k \in DOMAIN processed_df :
                                 PairOf(processed_df[k]) = PairOf(raw_df[i])}) = 1
          /\ \A k, l \in DOMAIN processed_df :
                 k < l => processed_df[k].index < processed_df[l].index
          /\ \A i, j \in DOMAIN raw_df :
                 (raw_df[i].review = raw_df[j].review /\ raw_df[i].bank # raw_df[j].bank)
                     => \E k, l \in DOMAIN processed_df :
                            /\ k # l
                            /\ PairOf(processed_df[k]) = PairOf(raw_df[i])
                            /\ PairOf(processed_df[l]) = PairOf(raw_df[j])
    /\ pc = "deduplicated_again" => processed_df = raw_df

\* a table with a repeated pair whose rows differ in rating, and the same
\* review under the other bank, has been reduced twice
C20_Witness ==
    /\ pc = "deduplicated_again"
    /\ Len(processed_df) = 2
    /\ processed_df[1].index = 0
    /\ processed_df[2].index = 2
    /\ processed_df[1].review = processed_df[2].review
    /\ processed_df[1].bank # processed_df[2].bank

-----------------------------------------------------------------------------
(* preprocess_reviews.py: handle_missing_data, normalize_dates and         *)
(* clean_review_text, each applied to a table that varies the columns the  *)
(* function reads.  A raw rating is a float, kept in tenths, or missing;   *)
(* a date is a str, kept as its characters, or missing (NaN).              *)

MaxCleanRows == 2

\* the clock: the days datetime.now() can fall on while a call runs
Clock == << <<"2","0","2","5","-","1","2","-","3","1">>,
            <<"2","0","2","6","-","0","1","-","0","1">> >>

\* rows for handle_missing_data: a missing, filled and empty review; a
\* missing rating, 0.9, 1.0, 5.9 and 6.0; a missing and a filled date
MissingDataRows ==
    [review : {NaN, <<"O","k">>, <<>>}, bank : {"CBE"},
     rating : {[missing |-> TRUE, tenths |-> 0]} \cup
              [missing : {FALSE}, tenths : {9, 10, 59, 60}],
     date : {NaN, <<"2","0","2","4","-","0","3","-","0","1">>}]

\* the table with the labels of a RangeIndex, from 0
RangeIndexed(rows) ==
    [i \in DOMAIN rows |->
        [index |-> i - 1, review |-> rows[i].review, bank |-> rows[i].bank,
         rating |-> rows[i].rating, date |-> rows[i].date]]

\* a cast that rounds to the nearest integer
RoundedCast(rating) ==
    IF rating.missing THEN 0 ELSE (rating.tenths + 5) \div 10

\* .fillna(0).astype(int) (line 61): 0 for a missing rating, else the float
\* truncated toward zero
FillAndCast(rating) ==
    IF rating.missing THEN 0
    ELSE IF rating.tenths >= 0 THEN rating.tenths \div 10
         ELSE -((-rating.tenths) \div 10)

\* handle_missing_data(df) (lines 53-71) when the clock reads today
handle_missing_data(table, today) ==
    LET reviewed == Selection(table, {i \in DOMAIN table : table[i].review # NaN}, 1)
        cast == [i \in DOMAIN reviewed |->
                    [reviewed[i] EXCEPT !.rating = FillAndCast(reviewed[i].rating)]]
        rated == Selection(cast, {i \in DOMAIN cast :
                                     cast[i].rating >= 1 /\ cast[i].rating <= 5}, 1)
    IN  [i \in DOMAIN rated |->
            [rated[i] EXCEPT !.date = IF rated[i].date = NaN THEN today
                                      ELSE rated[i].date]]

\* rows for normalize_dates: a missing, an empty and an unparseable date, a
\* date in each format, an ambiguous and an impossible slash date, a date
\* followed by other text and a date before the year 1000
DateRows ==
    [review : {<<"O","k">>}, bank : {"CBE"}, rating : {[missing |-> FALSE, tenths |-> 50]},
     date : {NaN,
      <<>>,
      <<"n","/","a">>,
      <<"2","0","2","4","-","0","3","-","0","1">>,
      <<"2","0","2","4","-","3","-","1">>,
      <<"0","1","/","1","5","/","2","0","2","4">>,
      <<"0","3","/","0","4","/","2","0","2","4">>,
      <<"3","1","/","0","2","/","2","0","2","4">>,
      <<"2","0","2","4","-","0","3","-","0","1","T","1","0",":","0","0",":","0","0">>,
      <<"2","0","2","4","-","0","3","-","0","1"," ","1","0",":","0","0",":","0","0">>,
      <<"2","0","2","4","-","0","3","-","0","1"," ","j","u","n","k">>,
      <<"0","9","9","9","-","0","3","-","0","1">>}]

Digits == <<"0","1","2","3","4","5","6","7","8","9">>

\* the characters of s before the first one in stops
RECURSIVE Before(_, _)
Before(s, stops) ==
    IF s = <<>> \/ Head(s) \in stops THEN <<>>
    ELSE <<Head(s)>> \o Before(Tail(s), stops)

\* the parts of s between the characters in seps
RECURSIVE Fields(_, _)
Fields(s, seps) ==
    LET f == Before(s, seps)
    IN  IF Len(f) = Len(s) THEN <<f>>
        ELSE <<f>> \o Fields(SubSeq(s, Len(f) + 2, Len(s)), seps)

\* the number a directive reads in field f, of least..most digits and
\* between low and top; -1 when the field does not match
Directive(f, least, most, low, top) ==
    LET RECURSIVE Value(_)
        Value(g) ==
            IF g = <<>> THEN 0
            ELSE 10 * Value(SubSeq(g, 1, Len(g) - 1))
                 + (CHOOSE k \in 0..9 : Digits[k + 1] = g[Len(g)])
    IN  IF /\ Len(f) >= least
           /\ Len(f) <= most
           /\ \A k \in DOMAIN f : f[k] \in SeqToSet(Digits)
           /\ Value(f) >= low
           /\ Value(f) <= top
        THEN Value(f) ELSE -1

\* the formats of lines 85-91, in their order
DateFormats == <<"%Y-%m-%d", "%Y-%m-%d %H:%M:%S", "%d/%m/%Y", "%m/%d/%Y",
                 "%Y-%m-%dT%H:%M:%S">>

\* datetime.strptime(token, fmt) for the formats of DateFormats: <<year,
\* month, day>>, or <<>> when it raises ValueError.  The whole token has to
\* match; %Y takes four digits, the other directives one or two; a letter of
\* the format matches in either case.
strptime(token, fmt) ==
    LET halves == IF fmt = "%Y-%m-%dT%H:%M:%S" THEN Fields(token, {"T", "t"})
                  ELSE IF fmt = "%Y-%m-%d %H:%M:%S" THEN Fields(token, WhiteSpace)
                  ELSE <<token, <<"0",":","0",":","0">> >>
        slashed == fmt \in {"%d/%m/%Y", "%m/%d/%Y"}
        d == IF Len(halves) = 2 THEN Fields(halves[1], IF slashed THEN {"/"} ELSE {"-"})
             ELSE <<>>
        t == IF Len(halves) = 2 THEN Fields(halves[2], {":"}) ELSE <<>>
    IN  IF Len(d) # 3 \/ Len(t) # 3 THEN <<>>
        ELSE LET y  == Directive(IF slashed THEN d[3] ELSE d[1], 4, 4, 1, 9999)
                 mo == Directive(IF fmt = "%d/%m/%Y" THEN d[2]
                                 ELSE IF fmt = "%m/%d/%Y" THEN d[1] ELSE d[2],
                                 1, 2, 1, 12)
                 dy == Directive(IF fmt = "%d/%m/%Y" THEN d[1]
                                 ELSE IF fmt = "%m/%d/%Y" THEN d[2] ELSE d[3],
                                 1, 2, 1, 31)
                 h  == Directive(t[1], 1, 2, 0, 23)
                 mi == Directive(t[2], 1, 2, 0, 59)
                 s  == Directive(t[3], 1, 2, 0, 59)
                 days == IF mo = 2
                         THEN (IF (y % 4 = 0 /\ y % 100 # 0) \/ y % 400 = 0
                               THEN 29 ELSE 28)
                         ELSE IF mo \in {4, 6, 9, 11} THEN 30 ELSE 31
             IN  IF y < 0 \/ mo < 0 \/ dy < 0 \/ h < 0 \/ mi < 0 \/ s < 0 THEN <<>>
                 ELSE IF dy > days THEN <<>>
                 ELSE <<y, mo, dy>>

\* dt.strftime('%Y-%m-%d'): the C library fills the year of a date before
\* the year 1000 with zeros (four_digits) or leaves it as it is
strftime(dt, four_digits) ==
    LET RECURSIVE Padded(_, _)
        Padded(n, width) ==
            IF width <= 1 /\ n < 10 THEN <<Digits[n + 1]>>
            ELSE Padded(n \div 10, width - 1) \o <<Digits[(n % 10) + 1]>>
    IN  Padded(dt[1], IF four_digits THEN 4 ELSE 1) \o <<"-">> \o Padded(dt[2], 2)
            \o <<"-">> \o Padded(dt[3], 2)

\* parse_date(date_str) (lines 76-101) when the clock reads today:
\* date_str.split()[0] is the part before the first white space, and raises
\* IndexError, which the except takes like a failed parse, when there is none
parse_date(date_str, today, four_digits) ==
    IF date_str = NaN THEN today
    ELSE LET token == Before(LStrip(date_str), WhiteSpace)
             parsed == [k \in DOMAIN DateFormats |->
                           IF token = <<>> THEN <<>>
                           ELSE strptime(token, DateFormats[k])]
             hits == {k \in DOMAIN DateFormats : parsed[k] # <<>>}
         IN  IF hits = {} THEN today
             ELSE strftime(parsed[CHOOSE k \in hits : \A l \in hits : k <= l],
                           four_digits)

\* normalize_dates(df) (lines 74-104); now[i] is the place in Clock of the
\* day the clock reads while row i is parsed
normalize_dates(table, now, four_digits) ==
    [i \in DOMAIN table |->
        [table[i] EXCEPT !.date = parse_date(table[i].date, Clock[now[i]], four_digits)]]

\* df = normalize_dates(df)
NormalizeDates ==
    /\ pc = "dates"
    /\ \E four_digits \in BOOLEAN :
          \E now \in [DOMAIN raw_df -> DOMAIN Clock] :
              /\ \A i, j \in DOMAIN raw_df : i <= j => now[i] <= now[j]
              /\ processed_df' = normalize_dates(raw_df, now, four_digits)
    /\ pc' = "normalized"
    /\ UNCHANGED <<raw_df, thematic_vars, insights_vars, run_vars>>

\* rows for clean_review_text: a missing, an empty and a blank review, a
\* review with white space around and inside it, and a clean one
ReviewTextRows ==
    [review : {NaN, <<" ","\t">>, <<" ","O"," "," ","k","\n">>, <<"O","k">>, <<>>, <<"O","\t","k">>},
     bank : {"CBE"}, rating : {[missing |-> FALSE, tenths |-> 50]},
     date : {<<"2","0","2","4","-","0","3","-","0","1">>}]

\* a clean_text that does not strip
CollapseOnly(text) ==
    IF text = NaN THEN <<>> ELSE CollapseWhitespace(text)

\* clean_text(text) (lines 109-122)
clean_text(text) ==
    IF text = NaN THEN <<>> ELSE Strip(CollapseWhitespace(text))

\* clean_review_text(df) (lines 107-130)
clean_review_text(table) ==
    LET cleaned == [i \in DOMAIN table |->
                       [table[i] EXCEPT !.review = clean_text(table[i].review)]]
    IN  Selection(cleaned, {i \in DOMAIN cleaned : Len(cleaned[i].review) > 0}, 1)

\* df = clean_review_text(df)
CleanReviewText ==
    /\ pc = "review_text"
    /\ processed_df' = clean_review_text(raw_df)
    /\ pc' = "cleaned"
    /\ UNCHANGED <<raw_df, thematic_vars, insights_vars, run_vars>>

\* rows of the raw file: a missing review, a review and the same review
\* followed by a space; two banks; a rating in and out of range; a
\* date and a missing date
RawFileRows ==
    [review : {NaN, <<"O","k">>, <<"O","k"," ">>},
     bank : {"CBE", "BOA"},
     rating : [missing : {FALSE}, tenths : {50, 60}],
     date : {NaN, <<"2","0","2","4","-","0","3","-","0","1">>}]

\* preprocess_reviews() (lines 154-200) from the table load_raw_data returns
\* to the table that is saved; the column source is carried along unchanged
\* and is not modelled
preprocess_reviews(table, today, now, four_digits) ==
    LET deduplicated == remove_duplicates(table)
        handled == handle_missing_data(deduplicated, today)
        dated == normalize_dates(handled, now, four_digits)
    IN  clean_review_text(dated)

InitClean ==
    /\ \/ /\ pc = "raw_file"
          /\ raw_df \in {RangeIndexed(rows) :
                            rows \in SeqsUpTo(RawFileRows, MaxCleanRows)}
       \/ /\ pc = "review_text"
          /\ raw_df \in {RangeIndexed(rows) :
                            rows \in SeqsUpTo(ReviewTextRows, MaxCleanRows)}
       \/ /\ pc = "missing_data"
          /\ raw_df \in {RangeIndexed(rows) :
                            rows \in SeqsUpTo(MissingDataRows, MaxCleanRows)}
       \/ /\ pc = "dates"
          /\ raw_df \in {RangeIndexed(rows) : rows \in SeqsUpTo(DateRows, MaxCleanRows)}
    /\ processed_df = <<>>
    /\ ThematicIdle
    /\ InsightsIdle

\* df = handle_missing_data(df)
HandleMissingData ==
    /\ pc = "missing_data"
    /\ \E k \in DOMAIN Clock : processed_df' = handle_missing_data(raw_df, Clock[k])
    /\ pc' = "handled"
    /\ UNCHANGED <<raw_df, thematic_vars, insights_vars, run_vars>>

\* df = preprocess_reviews(); the clock does not go back between the read of
\* handle_missing_data and the reads of normalize_dates
PreprocessReviews ==
    /\ pc = "raw_file"
    /\ \E four_digits \in BOOLEAN :
          \E k \in DOMAIN Clock :
              \E now \in [DOMAIN raw_df -> DOMAIN Clock] :
                  /\ \A i, j \in DOMAIN raw_df : i <= j => now[i] <= now[j]
                  /\ \A i \in DOMAIN raw_df : k <= now[i]
                  /\ processed_df' =
                        preprocess_reviews(raw_df, Clock[k], now, four_digits)
    /\ pc' = "saved"
    /\ UNCHANGED <<raw_df, thematic_vars, insights_vars, run_vars>>

NextClean == HandleMissingData \/ NormalizeDates \/ CleanReviewText \/ PreprocessReviews

SpecClean == InitClean /\ [][NextClean]_vars

-----------------------------------------------------------------------------
(* Claims about the cleaning functions, checked under SpecClean *)

\* the raw row a row of the result was made of
RawOf(row) == CHOOSE r \in SeqToSet(raw_df) : r.index = row.index

\* C21: after handle_missing_data every remaining row has a non-missing
\* review, an integer rating in 1..5 and a non-missing date; a row is removed
\* exactly when its review is missing or its rating is missing or, truncated
\* to an integer, outside 1..5.
C21_HandleMissingData ==
    pc = "handled" =>
        /\ \A k \in DOMAIN processed_df :
              /\ processed_df[k].review # NaN
              /\ processed_df[k].rating \in 1..5
              /\ processed_df[k].date # NaN
              /\ \E i \in DOMAIN raw_df : raw_df[i].index = processed_df[k].index
        /\ \A k, l \in DOMAIN processed_df :
              k < l => processed_df[k].index < processed_df[l].index
        /\ \A i \in DOMAIN raw_df :
              LET r == raw_df[i]
                  removed == \A k \in DOMAIN processed_df :
                                 processed_df[k].index # r.index
              IN  removed <=>
                     \/ r.review = NaN
                     \/ r.rating.missing
                     \/ r.rating.tenths < 10
                     \/ r.rating.tenths >= 60

\* a row rated 5.9 with a missing date was kept, rated 5 and dated, and a
\* row rated 0.9 was removed
C21_Witness ==
    /\ pc = "handled"
    /\ Len(raw_df) = 2
    /\ Len(processed_df) = 1
    /\ RawOf(processed_df[1]).rating.tenths = 59
    /\ RawOf(processed_df[1]).date = NaN
    /\ processed_df[1].rating = 5
    /\ processed_df[1].date \in SeqToSet(Clock)
    /\ \E i \in DOMAIN raw_df : ~raw_df[i].rating.missing /\ raw_df[i].rating.tenths = 9

\* a str of the form YYYY-MM-DD
IsIsoDate(s) ==
    /\ Len(s) = 10
    /\ \A k \in {1, 2, 3, 4, 6, 7, 9, 10} : s[k] \in SeqToSet(Digits)
    /\ s[5] = "-"
    /\ s[8] = "-"

\* the value, as a whole, is in one of the supported formats
Supported(value) ==
    /\ value # NaN
    /\ \E k \in DOMAIN DateFormats : strptime(value, DateFormats[k]) # <<>>

\* C22: after normalize_dates every row's date is a string of the form
\* YYYY-MM-DD, whatever the input value was; no row is added or dropped; a
\* value in none of the supported formats is replaced by the current date; a
\* slash-separated date valid both as day/month/year and as month/day/year
\* is read as day/month/year.
C22_NormalizeDates ==
    pc = "normalized" =>
        /\ Len(processed_df) = Len(raw_df)
        /\ \A i \in DOMAIN raw_df :
              /\ processed_df[i].index = raw_df[i].index
              /\ processed_df[i].review = raw_df[i].review
              /\ IsIsoDate(processed_df[i].date)
              /\ ~Supported(raw_df[i].date) => processed_df[i].date \in SeqToSet(Clock)
              /\ (/\ raw_df[i].date # NaN
                  /\ strptime(raw_df[i].date, "%d/%m/%Y") # <<>>
                  /\ strptime(raw_df[i].date, "%m/%d/%Y") # <<>>)
                    => \E four_digits \in BOOLEAN :
                           processed_df[i].date =
                               strftime(strptime(raw_df[i].date, "%d/%m/%Y"), four_digits)

\* the review has no character that is not white space
IsBlank(review) == review = NaN \/ \A k \in DOMAIN review : review[k] \in WhiteSpace

\* C23: after clean_review_text no review has leading or trailing white
\* space or two consecutive white-space characters, every white-space
\* character is a single space, and no review is empty; the rows whose review
\* is missing or blank are removed, all other rows are kept.
C23_CleanReviewText ==
    pc = "cleaned" =>
        /\ \A k \in DOMAIN processed_df :
              LET review == processed_df[k].review
              IN  /\ review # NaN
                  /\ review # <<>>
                  /\ review[1] \notin WhiteSpace
                  /\ review[Len(review)] \notin WhiteSpace
                  /\ \A c \in DOMAIN review : review[c] \in WhiteSpace => review[c] = " "
                  /\ \A c \in 1..(Len(review) - 1) :
                         ~(review[c] \in WhiteSpace /\ review[c + 1] \in WhiteSpace)
        /\ \A k, l \in DOMAIN processed_df :
              k < l => processed_df[k].index < processed_df[l].index
        /\ \A i \in DOMAIN raw_df :
              IsBlank(raw_df[i].review) <=>
                  \A k \in DOMAIN processed_df : processed_df[k].index # raw_df[i].index

\* a blank review was removed and a review with white space around and
\* inside it was kept
C23_Witness ==
    /\ pc = "cleaned"
    /\ Len(raw_df) = 2
    /\ raw_df[1].review = <<" ", "\t">>
    /\ Len(processed_df) = 1
    /\ processed_df[1].index = 1
    /\ processed_df[1].review = <<"O", " ", "k">>
    /\ Len(raw_df[2].review) = 6

-----------------------------------------------------------------------------
(* Claim about the order of terms of equal weight, checked under SpecRich *)

\* the place of a term in the vocabulary
VocabularyIndex(term) == CHOOSE f \in DOMAIN feature_names : feature_names[f] = term

\* C24: terms of the same positive weight in a review are listed in
\* vocabulary order, the smaller vocabulary index first, and when the cut to
\* five falls inside a group of tied terms the terms kept are the earliest in
\* vocabulary order.
C24_TieBreakByVocabularyOrder ==
    (pc = "identify" /\ feature_names # <<>>) =>
        LET texts == [i \in DOMAIN reviews |-> preprocess_text(reviews[i])]
            grams == Analyze(texts)
            V == SeqToSet(feature_names)
        IN  \A i \in DOMAIN reviews :
                LET terms == TermsOf(keywords_list[i])
                    scores == Scores(i, grams, V)
                IN  /\ \A a, b \in DOMAIN terms :
                          (a < b /\ scores[terms[a]] = scores[terms[b]])
                              => VocabularyIndex(terms[a]) < VocabularyIndex(terms[b])
                    /\ \A t \in V : \A a \in DOMAIN terms :
                          (/\ t \notin SeqToSet(terms)
                           /\ scores[t] = scores[terms[a]])
                              => VocabularyIndex(terms[a]) < VocabularyIndex(t)

-----------------------------------------------------------------------------
(* Claim about the order of an insight list, checked under SpecInsights *)

\* C25: in pain_points and in drivers the sentiment-derived entries come
\* before the rating-derived entries, the sentiment-derived entries are in
\* non-increasing order of count and so are the rating-derived entries among
\* themselves; a list has at most 3 sentiment-derived and at most 2
\* rating-derived entries.
C25_RankingOrder ==
    Reported =>
        \A list \in Lists :
            LET entries == insights[list]
                seeded == Seeded(list)
            IN  /\ seeded <= 3
                /\ seeded <= Len(entries)
                /\ Len(entries) - seeded <= 2
                /\ Len(entries) <= 5
                /\ \A i \in DOMAIN entries :
                      IF i <= seeded
                      THEN /\ entries[i].theme \in ThemesOf(SentimentTop(list))
                           /\ entries[i].count
                                 = CountIn(SentimentSegment(list), entries[i].theme)
                      ELSE /\ entries[i].theme \in ThemesOf(RatingTop(list))
                           /\ entries[i].theme \notin ThemesOf(SentimentTop(list))
                           /\ entries[i].count
                                 = CountIn(RatingSegment(list), entries[i].theme)
                /\ \A i, j \in DOMAIN entries :
                      (i < j /\ (j <= seeded \/ i > seeded))
                          => entries[i].count >= entries[j].count

\* two sentiment-derived pain points of different counts, then a
\* rating-derived one
C25_Witness ==
    /\ Reported
    /\ Seeded("pain_points") = 2
    /\ Len(insights.pain_points) = 3
    /\ insights.pain_points[1].count > insights.pain_points[2].count

-----------------------------------------------------------------------------
(* thematic_analysis.py: the texts extract_keywords_tfidf preprocesses *)

MaxTexts == 2

\* the values of the review column: a missing one, an empty and a blank one,
\* texts with an apostrophe, a digit, a hyphen, an accented letter, and runs
\* of white space
TextInputs ==
    { NaN,
      <<>>,
      <<" ","\t">>,
      <<"D","o","n","'","t">>,
      <<"A","1","b"," "," ","C","\n">>,
      <<"o","k"," ","g","o">>,
      <<" ","x","-","y"," ">>,
      <<"5","/","5"," ","!">>,
      <<"a"," ","5"," ","b">>,
      <<"C","a","f","é">> }

InitText ==
    /\ pc = "texts"
    /\ reviews \in SeqsUpTo(TextInputs, MaxTexts)
    /\ max_features = DefaultMaxFeatures
    /\ keywords_list = <<>>
    /\ feature_names = <<>>
    /\ review_themes = <<>>
    /\ RunOnce
    /\ InsightsIdle
    /\ PreprocessIdle

\* texts = [preprocess_text(text) for text in df['review']]
PreprocessTexts ==
    /\ pc = "texts"
    /\ processed_texts' = [i \in DOMAIN reviews |-> preprocess_text(reviews[i])]
    /\ pc' = "vectorize"
    /\ UNCHANGED <<thematic_vars, insights_vars, preprocess_vars, main_vars,
                   scraper_vars>>

NextText == PreprocessTexts

SpecText == InitText /\ [][NextText]_vars

\* the lower-cased letters of each white-space separated part of text that
\* has a letter, in order
LetterWords(text) ==
    LET parts == Fields(text, WhiteSpace)
        letters == [k \in DOMAIN parts |-> Lower(SelectSeq(parts[k], IsAlpha))]
    IN  SelectSeq(letters, LAMBDA w : w # <<>>)

\* C26: preprocess_text returns only the letters a-z and single spaces, with
\* no space at either end; a missing value gives ''; a removed character is
\* deleted and leaves no space behind (the words of the result are the letters
\* of the white-space separated parts of the input); and preprocess_text
\* applied to its result returns that result
C26_TextNormalization ==
    pc = "vectorize" =>
        /\ DOMAIN processed_texts = DOMAIN reviews
        /\ \A i \in DOMAIN reviews :
              LET x == reviews[i]
                  y == processed_texts[i]
              IN  /\ \A k \in DOMAIN y : IsLower(y[k]) \/ y[k] = " "
                  /\ \A k \in 1..(Len(y) - 1) : ~(y[k] = " " /\ y[k + 1] = " ")
                  /\ y # <<>> => (y[1] # " " /\ y[Len(y)] # " ")
                  /\ x = NaN => y = <<>>
                  /\ x # NaN =>
                        SelectSeq(Fields(y, {" "}), LAMBDA w : w # <<>>) = LetterWords(x)
                  /\ preprocess_text(y) = y

C26_Witness ==
    /\ pc = "vectorize"
    /\ \E i \in DOMAIN reviews :
          /\ reviews[i] = <<"D","o","n","'","t">>
          /\ processed_texts[i] = <<"d","o","n","t">>
    /\ \E i \in DOMAIN reviews :
          /\ reviews[i] = <<"a"," ","5"," ","b">>
          /\ processed_texts[i] = <<"a"," ","b">>

-----------------------------------------------------------------------------
(* thematic_analysis.py: identify_themes_manual on the triggers themselves *)

MaxTriggerRows == 2

\* every trigger of the taxonomy, as a keyword string of that single term
TriggerStrings ==
    UNION {{theme_patterns[t].patterns[p] : p \in DOMAIN theme_patterns[t].patterns} :
              t \in DOMAIN theme_patterns}

InitTriggers ==
    /\ pc = "identify"
    /\ reviews = <<>>
    /\ max_features = DefaultMaxFeatures
    /\ keywords_list \in SeqsUpTo(TriggerStrings, MaxTriggerRows)
    /\ feature_names = <<>>
    /\ review_themes = <<>>
    /\ RunOnce
    /\ InsightsIdle
    /\ PreprocessIdle

NextTriggers == IdentifyThemes

SpecTriggers == InitTriggers /\ [][NextTriggers]_vars

\* C27: a keyword string that is a single trigger t of theme T is classified
\* T, for every theme T and every trigger t declared for it
C27_EveryTriggerEffective ==
    pc = "themes" =>
        \A i \in DOMAIN keywords_list :
            \A t \in DOMAIN theme_patterns :
                \A p \in DOMAIN theme_patterns[t].patterns :
                    keywords_list[i] = theme_patterns[t].patterns[p]
                        => review_themes[i] = theme_patterns[t].theme

-----------------------------------------------------------------------------
(* Claim about preprocess_reviews, checked under SpecClean *)

\* C28: the table preprocess_reviews saves has no two rows with the same
\* review text and the same bank
C28_PipelineDeduplication ==
    pc = "saved" =>
        \A i, j \in DOMAIN processed_df :
            (/\ processed_df[i].review = processed_df[j].review
             /\ processed_df[i].bank = processed_df[j].bank) => i = j

-----------------------------------------------------------------------------
(* scraping/scrape_reviews.py: scrape_reviews *)

batch_size == 200

MaxBatches == 2

\* the counts scrape_reviews is asked for: none, one, and a whole number of
\* batches with and without one more
Counts == {0, 1} \cup UNION {{k * batch_size, k * batch_size + 1} : k \in 1..MaxBatches}

\* a continuation token that is not None
Token == "token"

\* the lengths of the list the store answers a request of n reviews with:
\* none, one, as many as asked for and one more
ResponseSizes(n) == {0, 1, n, n + 1}

\* scrape_reviews is about to be called
InitScraper ==
    /\ pc = "call"
    /\ ThematicIdle
    /\ InsightsIdle
    /\ PreprocessIdle

\* lines 63-65, for the argument count = n
Enter(n) ==
    /\ count_arg' = n
    /\ collected' = 0
    /\ continuation_token' = None
    /\ current_batch' = 0
    /\ returned' = <<>>
    /\ pc' = "loop"

\* scrape_reviews(app_id, app_name, bank_name, count)
CallScrapeReviews ==
    /\ pc = "call"
    /\ \E n \in Counts : Enter(n)
    /\ UNCHANGED <<main_vars, processed_texts, thematic_vars, insights_vars,
                   preprocess_vars>>

\* lines 70-90: the loop is entered and reviews(...) is called
Request ==
    /\ pc = "loop"
    /\ collected < count_arg
    /\ LET remaining == count_arg - collected
       IN  current_batch' = IF batch_size <= remaining THEN batch_size ELSE remaining
    /\ pc' = "request"
    /\ UNCHANGED <<count_arg, collected, continuation_token, returned, main_vars,
                   processed_texts, thematic_vars, insights_vars, preprocess_vars>>

\* lines 75-104: reviews(...) returns a list and a token
Respond ==
    /\ pc = "request"
    /\ \E size \in ResponseSizes(current_batch), token \in {None, Token} :
          /\ continuation_token' = token
          /\ collected' = collected + size
          /\ pc' = IF size = 0 \/ token = None THEN "exit" ELSE "loop"
    /\ UNCHANGED <<count_arg, current_batch, returned, main_vars,
                   processed_texts, thematic_vars, insights_vars, preprocess_vars>>

\* reviews(...) raises an Exception, which line 109 takes
RequestRaises ==
    /\ pc = "request"
    /\ pc' = "except"
    /\ UNCHANGED <<scraper_vars, main_vars,
                   processed_texts, thematic_vars, insights_vars, preprocess_vars>>

\* all_reviews[:count], for a count that is not negative: the length of the
\* slice of a list of the given length
FirstCount(length, n) == IF length <= n THEN length ELSE n

\* a handler that returns the reviews collected before the exception
CollectedSoFar(length, n) == FirstCount(length, n)

\* line 111: return [], whatever all_reviews holds
EmptyList(length, n) == 0

\* line 107, after a break or when the loop condition fails
Return ==
    /\ pc = "exit" \/ (pc = "loop" /\ collected >= count_arg)
    /\ returned' = <<FirstCount(collected, count_arg)>>
    /\ pc' = "scraped"
    /\ UNCHANGED <<count_arg, collected, continuation_token, current_batch, main_vars,
                   processed_texts, thematic_vars, insights_vars, preprocess_vars>>

\* lines 109-111
ReturnEmpty ==
    /\ pc = "except"
    /\ returned' = <<EmptyList(collected, count_arg)>>
    /\ pc' = "scraped"
    /\ UNCHANGED <<count_arg, collected, continuation_token, current_batch, main_vars,
                   processed_texts, thematic_vars, insights_vars, preprocess_vars>>

NextScraper == CallScrapeReviews \/ Request \/ Respond \/ RequestRaises \/ Return \/ ReturnEmpty

\* the interpreter goes on while a step is possible, and a request to the
\* store returns or raises
SpecScraper == InitScraper /\ [][NextScraper]_vars /\ WF_vars(NextScraper)

-----------------------------------------------------------------------------
(* Claim about scrape_reviews, checked under SpecScraper *)

\* what holds in every state of a call of scrape_reviews
ScraperStates ==
    /\ pc = "request" =>
          current_batch = IF batch_size <= count_arg - collected THEN batch_size
                          ELSE count_arg - collected
    /\ pc = "scraped" => (Len(returned) = 1 /\ returned[1] <= count_arg)

\* what holds of every step of a call of scrape_reviews
ScraperSteps ==
    /\ pc = "loop" => (pc' = "request" <=> collected < count_arg)
    /\ (pc = "request" /\ pc' # "except") =>
          /\ (collected' = collected \/ continuation_token' = None) => pc' = "exit"
          /\ (collected' > collected /\ continuation_token' # None) => pc' = "loop"
    /\ pc = "exit" => pc' = "scraped"
    /\ (pc = "loop" /\ pc' = "scraped") => returned' = <<count_arg>>
    /\ pc = "except" => returned' = <<0>>

\* C30: scrape_reviews terminates and returns at most count reviews; each
\* request asks for min(200, count - collected) reviews; after a response
\* that is empty or has no continuation token no other request is made, and
\* at the head of the loop one is made exactly when fewer than count reviews
\* are collected; the loop left at its head, as it is when every response is
\* non-empty and has a token, returns exactly count reviews; and after a
\* request that raises the empty list is returned, whatever was collected
C30_ScraperLoop ==
    /\ []ScraperStates
    /\ [][ScraperSteps]_vars
    /\ <>(pc = "scraped")

C30_Witness ==
    /\ pc = "scraped"
    /\ count_arg = 2 * batch_size + 1
    /\ current_batch = 1
    /\ returned = <<count_arg>>

-----------------------------------------------------------------------------
(* main.py: main, with scrape_reviews.main as its first stage *)

TARGET_REVIEWS_PER_BANK == 400

BANK_APPS == <<"CBE", "Awash", "Amharabank">>

\* the stages of main(), in the order of lines 30-88
Stages == <<"scraping", "preprocessing", "sentiment analysis", "thematic analysis",
            "visualization", "insights">>

\* an except clause that returns whatever the stage
ReturnsAlways(stage) == FALSE

\* the except clause of the stage prints and goes on (lines 33-35); the
\* others print and return
Continues(stage) == stage = "scraping"

InitMain ==
    /\ pc = "main"
    /\ ThematicIdle
    /\ InsightsIdle
    /\ PreprocessIdle

\* line 32: scrape_main() is entered, at the first bank of BANK_APPS
StartScraping ==
    /\ pc = "main"
    /\ started = <<>>
    /\ started' = <<Stages[1]>>
    /\ bank_index' = 1
    /\ pc' = "bank"
    /\ UNCHANGED <<outcome, complete, scraper_vars, processed_texts, thematic_vars,
                   insights_vars, preprocess_vars>>

\* scrape_reviews.main, line 190: scrape_reviews(..., TARGET_REVIEWS_PER_BANK)
ScrapeBank ==
    /\ pc = "bank"
    /\ Enter(TARGET_REVIEWS_PER_BANK)
    /\ UNCHANGED <<main_vars, processed_texts, thematic_vars, insights_vars,
                   preprocess_vars>>

\* scrape_reviews.main, lines 192-200: the reviews of the bank are saved and
\* the loop goes to the next bank
NextBank ==
    /\ pc = "scraped"
    /\ bank_index \in 1..(Len(BANK_APPS) - 1)
    /\ bank_index' = bank_index + 1
    /\ pc' = "bank"
    /\ UNCHANGED <<started, outcome, complete, scraper_vars, processed_texts,
                   thematic_vars, insights_vars, preprocess_vars>>

\* scrape_reviews.main returns after the last bank
ScrapingReturns ==
    /\ pc = "scraped"
    /\ bank_index = Len(BANK_APPS)
    /\ outcome' = Append(outcome, "returned")
    /\ pc' = "main"
    /\ UNCHANGED <<started, complete, bank_index, scraper_vars, processed_texts,
                   thematic_vars, insights_vars, preprocess_vars>>

\* the stage a try block of main() has entered
Running == started[Len(started)]

\* what main() does when the stage it runs raises an Exception
AfterException == IF Continues(Running) THEN "main" ELSE "returned"

\* save_reviews, format_reviews or to_csv raises in scrape_reviews.main
ScrapingRaises ==
    /\ pc = "scraped"
    /\ bank_index \in DOMAIN BANK_APPS
    /\ outcome' = Append(outcome, "raised")
    /\ pc' = AfterException
    /\ UNCHANGED <<started, complete, bank_index, scraper_vars, processed_texts,
                   thematic_vars, insights_vars, preprocess_vars>>

\* lines 37-39, 49-51, 56-58, 76-78, 83-85: the next stage is entered
StartStage ==
    /\ pc = "main"
    /\ Len(started) \in 1..(Len(Stages) - 1)
    /\ started' = Append(started, Stages[Len(started) + 1])
    /\ pc' = "stage"
    /\ UNCHANGED <<outcome, complete, bank_index, scraper_vars, processed_texts,
                   thematic_vars, insights_vars, preprocess_vars>>

StageReturns ==
    /\ pc = "stage"
    /\ outcome' = Append(outcome, "returned")
    /\ pc' = "main"
    /\ UNCHANGED <<started, complete, bank_index, scraper_vars, processed_texts,
                   thematic_vars, insights_vars, preprocess_vars>>

\* lines 40-42, 52-54, 59-61, 79-81, 86-88
StageRaises ==
    /\ pc = "stage"
    /\ outcome' = Append(outcome, "raised")
    /\ pc' = AfterException
    /\ UNCHANGED <<started, complete, bank_index, scraper_vars, processed_texts,
                   thematic_vars, insights_vars, preprocess_vars>>

\* lines 90-99
ReportComplete ==
    /\ pc = "main"
    /\ Len(started) = Len(Stages)
    /\ complete' = TRUE
    /\ pc' = "returned"
    /\ UNCHANGED <<started, outcome, bank_index, scraper_vars, processed_texts,
                   thematic_vars, insights_vars, preprocess_vars>>

NextMain ==
    \/ StartScraping \/ ScrapeBank \/ NextBank \/ ScrapingReturns \/ ScrapingRaises
    \/ Request \/ Respond \/ RequestRaises \/ Return \/ ReturnEmpty
    \/ StartStage \/ StageReturns \/ StageRaises \/ ReportComplete

SpecMain == InitMain /\ [][NextMain]_vars

\* C29: main() starts the stages in the order scraping, preprocessing,
\* sentiment analysis, thematic analysis, visualization, insights, each at
\* most once; after an exception in scraping the run goes on and main() does
\* not return before preprocessing is started; after an exception in a later
\* stage main() has returned, no later stage is started and 'Pipeline
\* Complete' is not reported; 'Pipeline Complete' is reported only when the
\* five stages after scraping have all returned without an exception
C29_StageOrderAndAbort ==
    /\ Len(started) <= Len(Stages)
    /\ \A i \in DOMAIN started : started[i] = Stages[i]
    /\ Len(outcome) <= Len(started)
    /\ (Len(outcome) = 1 /\ Len(started) = 1 /\ outcome[1] = "raised") => pc = "main"
    /\ pc = "returned" => Len(started) >= 2
    /\ \A i \in DOMAIN outcome :
          (i >= 2 /\ outcome[i] = "raised") =>
              /\ Len(started) = i
              /\ pc = "returned"
              /\ ~complete
    /\ complete =>
          /\ Len(outcome) = Len(Stages)
          /\ \A i \in 2..Len(Stages) : outcome[i] = "returned"

C29_Witness ==
    /\ pc = "returned"
    /\ ~complete
    /\ outcome = <<"raised", "returned", "returned", "raised">>
    /\ started = SubSeq(Stages, 1, 4)

=============================================================================
